---- MODULE Spec2Model ----
(***************************************************************************)
(* Texas Hold'em engine of src/logic/pokerLogic.js: deck, hand evaluator,  *)
(* betting state machine (startHand / getLegalActions / applyAction) and   *)
(* pot resolver (computeSidePots / awardPot / resolveHand).                *)
(*                                                                         *)
(* The engine is a pure state transformer: every exported function takes a *)
(* game-state object and returns a new one.  The functions are operators   *)
(* over a record `game`; the actions apply them to the current snapshot.   *)
(* Presentation-only fields (name, currentAction, showCards, message, the  *)
(* legacy mirrors chips/bet/hand/folded written by syncLegacyFields) carry *)
(* no engine decision and are left out of the record.                      *)
(***************************************************************************)
EXTENDS Integers, Sequences, FiniteSets, TLC

VARIABLES game, stacksBefore

vars == <<game, stacksBefore>>

(* ------------------------------ bounds -------------------------------- *)

\* largest stack a seat brings to the table
MaxStack == 3

\* number of deck orders the shuffle may produce
MaxShuffles == 1

(* ----------------------------- constants ------------------------------ *)

\* table sizes handed to createPlayers: heads-up and three-handed
TableSizes == {2, 3}

\* players.length and the seat indices of a player list
Length(players) == Cardinality(DOMAIN players)

SeatsOf(players) == DOMAIN players

PHASES == [PREFLOP |-> "preflop", FLOP |-> "flop", TURN |-> "turn",
           RIVER |-> "river", SHOWDOWN |-> "showdown"]

PLAYER_STATUS == [ACTIVE |-> "active", FOLDED |-> "folded",
                  ALL_IN |-> "all_in", ELIMINATED |-> "eliminated"]

\* ACTIONS of the source (the word is reserved in TLA+)
ACTS == [FOLD |-> "fold", CHECK |-> "check", CALL |-> "call",
         BET |-> "bet", RAISE |-> "raise", ALL_IN |-> "all_in"]

\* blind sizes handed to createInitialGameState
BlindLevels == {[sb |-> 1, bb |-> 2]}

(* ------------------------------ helpers ------------------------------- *)

Max(a, b) == IF a >= b THEN a ELSE b

Min(a, b) == IF a <= b THEN a ELSE b

RECURSIVE SumSeq(_)
SumSeq(s) == IF s = <<>> THEN 0 ELSE Head(s) + SumSeq(Tail(s))

sum(arr) == SumSeq(arr)

\* Math.max(lo, Math.min(hi, parseInt(n)))
clampInt(n, lo, hi) == Max(lo, Min(hi, n))

(* ------------------------------- deck --------------------------------- *)

\* card c of createDeck: suits outer, ranks inner; c = 13 * suit + rank index
createDeck == [i \in 1 .. 52 |-> i - 1]

getRankValue(c) == (c % 13) + 2

SuitOf(c) == c \div 13

\* deck.pop(): the last element is the top card
Top(deck) == deck[Len(deck)]

Pop(deck) == SubSeq(deck, 1, Len(deck) - 1)

\* Orders shuffleDeck may return.  Order 1 pops the four suits of a rank
\* before the next rank (boards that tie the seats), order 2 is the deck of
\* createDeck (popped from the ace of the last suit down), the others are
\* affine permutations of the 52 cards.
ShuffleCard(k, j) ==
  IF k = 1 THEN 13 * (j % 4) + (12 - ((j \div 4) % 13))
  ELSE IF k = 2 THEN 51 - j
  ELSE ((2 * k + 1) * j + 5 * k) % 52

shuffleDeck(k) == [i \in 1 .. 52 |-> ShuffleCard(k, 52 - i)]

(* --------------------------- hand evaluator --------------------------- *)

\* insert a rank into a descending sequence
RECURSIVE InsertDesc(_, _)
InsertDesc(x, s) ==
  IF s = <<>> THEN <<x>>
  ELSE IF x >= Head(s) THEN <<x>> \o s
  ELSE <<Head(s)>> \o InsertDesc(x, Tail(s))

\* ranks of the cards sorted descending
RECURSIVE RanksDesc(_)
RanksDesc(cards) ==
  IF cards = <<>> THEN <<>>
  ELSE InsertDesc(getRankValue(Head(cards)), RanksDesc(Tail(cards)))

\* counts per rank: the groups {r, c} of a descending rank sequence, rank descending
RECURSIVE CountGroups(_)
CountGroups(ranks) ==
  IF ranks = <<>> THEN <<>>
  ELSE LET rest == CountGroups(Tail(ranks))
       IN  IF rest # <<>> /\ Head(rest).r = Head(ranks)
             THEN <<[r |-> Head(ranks), c |-> Head(rest).c + 1]>> \o Tail(rest)
             ELSE <<[r |-> Head(ranks), c |-> 1]>> \o rest

\* groups sorted by count descending, then rank ascending
Groups_RankAscending(ranks) ==
  LET g == CountGroups(ranks)
      rev(s) == [i \in 1 .. Len(s) |-> s[Len(s) + 1 - i]]
  IN  rev(SelectSeq(g, LAMBDA x : x.c = 4)) \o rev(SelectSeq(g, LAMBDA x : x.c = 3))
      \o rev(SelectSeq(g, LAMBDA x : x.c = 2)) \o rev(SelectSeq(g, LAMBDA x : x.c = 1))

\* groups sorted by count descending, then rank descending
Groups(ranks) ==
  LET g == CountGroups(ranks)
  IN  SelectSeq(g, LAMBDA x : x.c = 4) \o SelectSeq(g, LAMBDA x : x.c = 3)
      \o SelectSeq(g, LAMBDA x : x.c = 2) \o SelectSeq(g, LAMBDA x : x.c = 1)

\* ranks.filter(r => r !== x), order kept
RECURSIVE FilterNe(_, _)
FilterNe(s, x) ==
  IF s = <<>> THEN <<>>
  ELSE (IF Head(s) # x THEN <<Head(s)>> ELSE <<>>) \o FilterNe(Tail(s), x)

evaluate5CardHand(cards) ==
  LET ranks == RanksDesc(cards)
      isFlush == \A i \in 1 .. Len(cards) : SuitOf(cards[i]) = SuitOf(cards[1])
      run == \A i \in 1 .. 4 : ranks[i] - ranks[i + 1] = 1
      wheel == ~run /\ ranks = <<14, 5, 4, 3, 2>>
      isStraight == run \/ wheel
      straightKickers == IF wheel THEN <<5, 4, 3, 2, 1>> ELSE ranks
      groups == Groups(ranks)
  IN  IF isFlush /\ isStraight
        THEN [tier |-> 8, kickers |-> straightKickers]
      ELSE IF groups[1].c = 4
        THEN [tier |-> 7, kickers |-> <<groups[1].r, groups[2].r>>]
      ELSE IF groups[1].c = 3 /\ groups[2].c = 2
        THEN [tier |-> 6, kickers |-> <<groups[1].r, groups[2].r>>]
      ELSE IF isFlush
        THEN [tier |-> 5, kickers |-> ranks]
      ELSE IF isStraight
        THEN [tier |-> 4, kickers |-> straightKickers]
      ELSE IF groups[1].c = 3
        THEN [tier |-> 3, kickers |-> <<groups[1].r>> \o FilterNe(ranks, groups[1].r)]
      ELSE IF groups[1].c = 2 /\ groups[2].c = 2
        THEN [tier |-> 2, kickers |-> <<groups[1].r, groups[2].r, groups[3].r>>]
      ELSE IF groups[1].c = 2
        THEN [tier |-> 1, kickers |-> <<groups[1].r>> \o FilterNe(ranks, groups[1].r)]
      ELSE [tier |-> 0, kickers |-> ranks]

\* all k-element subsequences, in the order getCombinations builds them
RECURSIVE getCombinations(_, _)
getCombinations(array, k) ==
  IF k = 1 THEN [i \in 1 .. Len(array) |-> <<array[i]>>]
  ELSE IF array = <<>> THEN <<>>
  ELSE LET smallerCombs == getCombinations(Tail(array), k - 1)
       IN  [i \in 1 .. Len(smallerCombs) |-> <<Head(array)>> \o smallerCombs[i]]
           \o getCombinations(Tail(array), k)

\* the kicker comparison when only the first kicker is looked at
CompareKickers_FirstOnly(ak, bk, i) ==
  IF i > Len(ak) \/ i > Len(bk) THEN 0
  ELSE IF ak[i] > bk[i] THEN 1
  ELSE IF bk[i] > ak[i] THEN -1
  ELSE 0

\* first index at which the kicker sequences decide, over a.kickers only;
\* a missing b.kickers[i] (undefined) compares false both ways
RECURSIVE CompareKickers(_, _, _)
CompareKickers(ak, bk, i) ==
  IF i > Len(ak) THEN 0
  ELSE IF i > Len(bk) THEN CompareKickers(ak, bk, i + 1)
  ELSE IF ak[i] > bk[i] THEN 1
  ELSE IF bk[i] > ak[i] THEN -1
  ELSE CompareKickers(ak, bk, i + 1)

compareHandsResults(a, b) ==
  IF a.tier > b.tier THEN 1
  ELSE IF b.tier > a.tier THEN -1
  ELSE CompareKickers(a.kickers, b.kickers, 1)

\* the best hand when only the first combination is scored
BestOf_FirstOnly(combos, i, bestHand) == bestHand

RECURSIVE BestOf(_, _, _)
BestOf(combos, i, bestHand) ==
  IF i > Len(combos) THEN bestHand
  ELSE LET result == evaluate5CardHand(combos[i])
       IN  IF compareHandsResults(result, bestHand) > 0
             THEN BestOf(combos, i + 1, result)
             ELSE BestOf(combos, i + 1, bestHand)

evaluateHand(holeCards, communityCards) ==
  LET allCards == holeCards \o communityCards
  IN  IF Len(allCards) < 5 THEN [tier |-> 0, kickers |-> <<>>]
      ELSE LET combos == getCombinations(allCards, 5)
           IN  BestOf(combos, 2, evaluate5CardHand(combos[1]))

(* ------------------------------ players ------------------------------- *)

\* one entry of createPlayers
\* handStrength of a player no hand was evaluated for (undefined)
NoScore == [tier |-> -1, kickers |-> <<>>]

createPlayer(i, startingStack) ==
  [id |-> i, stack |-> startingStack, holeCards |-> <<>>, currentBet |-> 0,
   totalCommitted |-> 0, status |-> PLAYER_STATUS.ACTIVE,
   handStrength |-> NoScore]

isInHand(p) == p.status = PLAYER_STATUS.ACTIVE \/ p.status = PLAYER_STATUS.ALL_IN

canAct(p) == p.status = PLAYER_STATUS.ACTIVE /\ p.stack > 0

isFolded(p) == p.status = PLAYER_STATUS.FOLDED

createInitialGameState(players, sbAmount, bbAmount, dealerIndex) ==
  [deck |-> <<>>,
   communityCards |-> <<>>,
   phase |-> "idle",
   dealerIndex |-> dealerIndex,
   sbAmount |-> sbAmount,
   bbAmount |-> bbAmount,
   players |-> players,
   betting |-> [highestBetThisRound |-> 0,
                minRaiseAmount |-> bbAmount,
                lastFullRaiseSize |-> bbAmount,
                actedSinceLastFullRaise |-> {},
                lastReopenerIndex |-> -1,
                startingIndex |-> -1,
                currentActorIndex |-> -1,
                hasActedThisRound |-> FALSE],
   pots |-> <<>>,
   winners |-> <<>>,
   handOver |-> FALSE,
   oddChipStartIndex |-> dealerIndex]

nextIndexClockwise(players, from) == (from + 1) % Length(players)

RECURSIVE FindLoop(_, _, _)
FindLoop(players, idx, loop) ==
  IF loop >= Length(players) THEN -1
  ELSE IF canAct(players[idx]) THEN idx
  ELSE FindLoop(players, nextIndexClockwise(players, idx), loop + 1)

\* the search when it starts at fromIndex itself instead of the seat after it
findNextToAct_FromSeat(state, fromIndex) ==
  FindLoop(state.players, fromIndex, 0)

findNextToAct(state, fromIndex) ==
  FindLoop(state.players, nextIndexClockwise(state.players, fromIndex), 0)

\* commitChips without the cap Math.min(player.stack, ...)
commitChips_Uncapped(player, amount) ==
  LET toCommit == Max(0, amount)
      stack == player.stack - toCommit
  IN  [player EXCEPT !.stack = stack,
                     !.currentBet = @ + toCommit,
                     !.totalCommitted = @ + toCommit,
                     !.status = IF stack = 0 /\ @ = PLAYER_STATUS.ACTIVE
                                  THEN PLAYER_STATUS.ALL_IN ELSE @]

\* the player after commitChips(player, amount)
\* the commit when a player whose stack it empties stays Active
commitChips_StaysActive(player, amount) ==
  LET toCommit == Min(player.stack, Max(0, amount))
  IN  [player EXCEPT !.stack = @ - toCommit,
                     !.currentBet = @ + toCommit,
                     !.totalCommitted = @ + toCommit]

commitChips(player, amount) ==
  LET toCommit == Min(player.stack, Max(0, amount))
      stack == player.stack - toCommit
  IN  [player EXCEPT !.stack = stack,
                     !.currentBet = @ + toCommit,
                     !.totalCommitted = @ + toCommit,
                     !.status = IF stack = 0 /\ @ = PLAYER_STATUS.ACTIVE
                                  THEN PLAYER_STATUS.ALL_IN ELSE @]

\* burnOne that leaves the deck as it is
burnOne_NoBurn(state) == state

\* burnOne: drop the top card if there is one
burnOne(state) ==
  IF Len(state.deck) > 0 THEN [state EXCEPT !.deck = Pop(@)] ELSE state

\* dealing to the board when the dealt card is left on the deck
RECURSIVE dealCommunity_NoPop(_, _)
dealCommunity_NoPop(state, count) ==
  IF count = 0 THEN state
  ELSE dealCommunity_NoPop([state EXCEPT !.communityCards = Append(@, Top(state.deck))],
                           count - 1)

RECURSIVE dealCommunity(_, _)
dealCommunity(state, count) ==
  IF count = 0 THEN state
  ELSE dealCommunity([state EXCEPT !.communityCards = Append(@, Top(state.deck)),
                                   !.deck = Pop(@)], count - 1)

(* ------------------------------ startHand ----------------------------- *)

\* the two dealing passes, one seat per step, clockwise from the dealer
RECURSIVE DealHoleCards(_, _)
DealHoleCards(state, step) ==
  IF step >= 2 * Length(state.players) THEN state
  ELSE LET seats == Length(state.players)
           i == (state.dealerIndex + (step % seats) + 1) % seats
       IN  IF state.players[i].status = PLAYER_STATUS.ACTIVE
             THEN DealHoleCards(
                    [state EXCEPT !.players[i].holeCards = Append(@, Top(state.deck)),
                                  !.deck = Pop(@)], step + 1)
             ELSE DealHoleCards(state, step + 1)

\* startHand(state) when shuffleDeck returns order k
startHand(state, k) ==
  LET reset == [state EXCEPT
                  !.handOver = FALSE, !.winners = <<>>, !.pots = <<>>,
                  !.communityCards = <<>>, !.phase = PHASES.PREFLOP,
                  !.deck = shuffleDeck(k),
                  !.players = [i \in SeatsOf(state.players) |->
                     [state.players[i] EXCEPT
                        !.status = IF state.players[i].stack <= 0
                                     THEN PLAYER_STATUS.ELIMINATED
                                     ELSE PLAYER_STATUS.ACTIVE,
                        !.holeCards = <<>>, !.currentBet = 0,
                        !.totalCommitted = 0]]]
      dealt == DealHoleCards(reset, 0)
      sbIndex == (dealt.dealerIndex + 1) % Length(dealt.players)
      bbIndex == (dealt.dealerIndex + 2) % Length(dealt.players)
      withSb == IF dealt.players[sbIndex].status = PLAYER_STATUS.ACTIVE
                  THEN [dealt EXCEPT !.players[sbIndex] = commitChips(@, dealt.sbAmount)]
                  ELSE dealt
      next == IF withSb.players[bbIndex].status = PLAYER_STATUS.ACTIVE
                THEN [withSb EXCEPT !.players[bbIndex] = commitChips(@, withSb.bbAmount)]
                ELSE withSb
      highest == Max(next.players[sbIndex].currentBet, next.players[bbIndex].currentBet)
  IN  [next EXCEPT !.betting =
         [highestBetThisRound |-> highest,
          minRaiseAmount |-> next.bbAmount,
          lastFullRaiseSize |-> next.bbAmount,
          actedSinceLastFullRaise |-> {},
          lastReopenerIndex |-> bbIndex,
          startingIndex |-> findNextToAct(next, bbIndex),
          currentActorIndex |-> findNextToAct(next, bbIndex),
          hasActedThisRound |-> FALSE]]

(* --------------------------- getLegalActions -------------------------- *)

NoLegalActions ==
  [canFold |-> FALSE, canCheck |-> FALSE, canCall |-> FALSE, canBet |-> FALSE,
   canRaise |-> FALSE, canAllIn |-> FALSE, callAmount |-> 0, minTotalBet |-> 0,
   maxTotalBet |-> 0]

\* the legal actions when a seat that has acted since the last full raise
\* may raise again
getLegalActions_RaiseAgain(state, playerIndex) ==
  IF playerIndex \notin SeatsOf(state.players) THEN NoLegalActions
  ELSE IF ~canAct(state.players[playerIndex]) \/ state.handOver THEN NoLegalActions
  ELSE LET p == state.players[playerIndex]
           highest == state.betting.highestBetThisRound
           callAmount == Max(0, highest - p.currentBet)
           maxTotalBet == p.currentBet + p.stack
       IN  [canFold |-> TRUE,
            canCheck |-> callAmount = 0,
            canCall |-> callAmount > 0 /\ p.stack > 0,
            canBet |-> highest = 0 /\ p.stack > 0,
            canRaise |-> highest > 0 /\ maxTotalBet > highest,
            canAllIn |-> p.stack > 0,
            callAmount |-> callAmount,
            minTotalBet |-> highest + state.betting.minRaiseAmount,
            maxTotalBet |-> maxTotalBet]

getLegalActions(state, playerIndex) ==
  IF playerIndex \notin SeatsOf(state.players) THEN NoLegalActions
  ELSE IF ~canAct(state.players[playerIndex]) \/ state.handOver THEN NoLegalActions
  ELSE LET p == state.players[playerIndex]
           highest == state.betting.highestBetThisRound
           callAmount == Max(0, highest - p.currentBet)
           minRaise == state.betting.minRaiseAmount
           maxTotalBet == p.currentBet + p.stack
           alreadyActed == playerIndex \in state.betting.actedSinceLastFullRaise
       IN  [canFold |-> TRUE,
            canCheck |-> callAmount = 0,
            canCall |-> callAmount > 0 /\ p.stack > 0,
            canBet |-> highest = 0 /\ p.stack > 0,
            canRaise |-> highest > 0 /\ ~alreadyActed /\ maxTotalBet > highest,
            canAllIn |-> p.stack > 0,
            callAmount |-> callAmount,
            minTotalBet |-> highest + minRaise,
            maxTotalBet |-> maxTotalBet]

(* --------------------------- round completion ------------------------- *)

\* the settled test when a seat that owes chips is not looked at
allPlayersSettledToHighest_NotChecked(state) ==
  \A i \in SeatsOf(state.players) :
    state.players[i].currentBet <= state.betting.highestBetThisRound

allPlayersSettledToHighest(state) ==
  \A i \in SeatsOf(state.players) :
    LET p == state.players[i]
    IN  \/ isFolded(p)
        \/ ~isInHand(p)
        \/ p.status = PLAYER_STATUS.ALL_IN
        \/ p.currentBet = state.betting.highestBetThisRound

bettingRoundShouldEnd(state, nextActorIndex) ==
  IF nextActorIndex = -1 THEN TRUE
  ELSE IF ~state.betting.hasActedThisRound THEN FALSE
  ELSE IF ~allPlayersSettledToHighest(state) THEN FALSE
  ELSE LET endIndex == IF state.betting.highestBetThisRound = 0
                         THEN state.betting.startingIndex
                         \* lastReopenerIndex is never null: ?? keeps it
                         ELSE state.betting.lastReopenerIndex
       IN  nextActorIndex = endIndex

\* the street reset when the acted set of the last street is kept
resetBetsForNextStreet_KeepsActed(state) ==
  [state EXCEPT
     !.players = [i \in SeatsOf(state.players) |->
                    [state.players[i] EXCEPT !.currentBet = 0]],
     !.betting.highestBetThisRound = 0,
     !.betting.minRaiseAmount = state.bbAmount,
     !.betting.lastFullRaiseSize = state.bbAmount,
     !.betting.lastReopenerIndex = -1,
     !.betting.hasActedThisRound = FALSE]

\* the street reset when the bets of the last street are left standing
resetBetsForNextStreet_KeepsBets(state) ==
  [state EXCEPT
     !.betting.highestBetThisRound = 0,
     !.betting.minRaiseAmount = state.bbAmount,
     !.betting.lastFullRaiseSize = state.bbAmount,
     !.betting.actedSinceLastFullRaise = {},
     !.betting.lastReopenerIndex = -1,
     !.betting.hasActedThisRound = FALSE]

resetBetsForNextStreet(state) ==
  [state EXCEPT
     !.players = [i \in SeatsOf(state.players) |->
                    [state.players[i] EXCEPT !.currentBet = 0]],
     !.betting.highestBetThisRound = 0,
     !.betting.minRaiseAmount = state.bbAmount,
     !.betting.lastFullRaiseSize = state.bbAmount,
     !.betting.actedSinceLastFullRaise = {},
     !.betting.lastReopenerIndex = -1,
     !.betting.hasActedThisRound = FALSE]

\* seats still in the hand, in seat order
remainingInHand(state) ==
  {i \in SeatsOf(state.players) : isInHand(state.players[i]) /\ ~isFolded(state.players[i])}

\* the state after maybeEndHandIfOneLeft and whether it ended the hand
maybeEndHandIfOneLeft(state) ==
  LET remaining == remainingInHand(state)
  IN  IF Cardinality(remaining) = 1
        THEN [ended |-> TRUE,
              state |-> [state EXCEPT !.handOver = TRUE,
                                      !.phase = PHASES.SHOWDOWN,
                                      !.winners = <<state.players[CHOOSE i \in remaining : TRUE].id>>]]
        ELSE [ended |-> FALSE, state |-> state]

(* ----------------------------- pot resolver --------------------------- *)

\* the seats of a set as a sequence in seat order (Array.filter keeps order)
RECURSIVE SeatsInOrder(_, _, _)
SeatsInOrder(S, i, n) ==
  IF i >= n THEN <<>>
  ELSE (IF i \in S THEN <<i>> ELSE <<>>) \o SeatsInOrder(S, i + 1, n)

\* the levels sorted the wrong way round, largest first
RECURSIVE SortAsc_Descending(_)
SortAsc_Descending(S) ==
  IF S = {} THEN <<>>
  ELSE LET m == CHOOSE x \in S : \A y \in S : x >= y
       IN  <<m>> \o SortAsc_Descending(S \ {m})

\* a finite set of numbers sorted ascending
RECURSIVE SortAsc(_)
SortAsc(S) ==
  IF S = {} THEN <<>>
  ELSE LET m == CHOOSE x \in S : \A y \in S : x <= y
       IN  <<m>> \o SortAsc(S \ {m})

\* the pots when a slice is multiplied by the non-folded contributors only
RECURSIVE PotsForLevels_LiveOnly(_, _, _)
PotsForLevels_LiveOnly(players, levels, prev) ==
  IF levels = <<>> THEN <<>>
  ELSE LET level == Head(levels)
           live == {i \in SeatsOf(players) : players[i].totalCommitted >= level
                                             /\ players[i].status # PLAYER_STATUS.FOLDED}
       IN  <<[amount |-> (level - prev) * Cardinality(live),
              eligiblePlayers |-> SeatsInOrder(live, 0, Length(players))]>>
           \o PotsForLevels_LiveOnly(players, Tail(levels), level)

\* the pots when the folded contributors of a level stay eligible for it
RECURSIVE PotsForLevels_FoldedEligible(_, _, _)
PotsForLevels_FoldedEligible(players, levels, prev) ==
  IF levels = <<>> THEN <<>>
  ELSE LET level == Head(levels)
           eligibleContribs == {i \in SeatsOf(players) : players[i].totalCommitted > 0
                                               /\ players[i].totalCommitted >= level}
           slice == level - prev
       IN  <<[amount |-> slice * Cardinality(eligibleContribs),
              eligiblePlayers |-> SeatsInOrder(eligibleContribs, 0, Length(players))]>>
           \o PotsForLevels_FoldedEligible(players, Tail(levels), level)

RECURSIVE PotsForLevels(_, _, _)
PotsForLevels(players, levels, prev) ==
  IF levels = <<>> THEN <<>>
  ELSE LET level == Head(levels)
           eligibleContribs == {i \in SeatsOf(players) : players[i].totalCommitted > 0
                                               /\ players[i].totalCommitted >= level}
           slice == level - prev
           amount == slice * Cardinality(eligibleContribs)
           eligiblePlayers ==
             SeatsInOrder({i \in eligibleContribs :
                             players[i].status # PLAYER_STATUS.FOLDED}, 0, Length(players))
       IN  <<[amount |-> amount, eligiblePlayers |-> eligiblePlayers]>>
           \o PotsForLevels(players, Tail(levels), level)

RECURSIVE FilterPositive(_)
FilterPositive(pots) ==
  IF pots = <<>> THEN <<>>
  ELSE (IF Head(pots).amount > 0 THEN <<Head(pots)>> ELSE <<>>)
       \o FilterPositive(Tail(pots))

computeSidePots(players) ==
  LET contributors == {i \in SeatsOf(players) : players[i].totalCommitted > 0}
      levels == SortAsc({players[i].totalCommitted : i \in contributors})
  IN  IF contributors = {} THEN <<>>
      ELSE FilterPositive(PotsForLevels(players, levels, 0))

\* the winners among the eligible seats, in the order awardPot collects them
RECURSIVE PotWinners(_, _, _, _, _)
PotWinners(players, eligible, i, best, winners) ==
  IF i > Len(eligible) THEN winners
  ELSE LET p == players[eligible[i]]
           cmp == compareHandsResults(p.handStrength, best)
       IN  IF cmp > 0 THEN PotWinners(players, eligible, i + 1, p.handStrength, <<p.id>>)
           ELSE IF cmp = 0 THEN PotWinners(players, eligible, i + 1, best, Append(winners, p.id))
           ELSE PotWinners(players, eligible, i + 1, best, winners)

InSeq(x, s) == \E i \in 1 .. Len(s) : s[i] = x

\* odd chips: one each to the winners met walking clockwise from idx
RECURSIVE OddChips(_, _, _, _, _)
OddChips(players, winners, idx, remainder, loop) ==
  IF ~(remainder > 0 /\ loop < Length(players) * 2) THEN players
  ELSE IF InSeq(players[idx].id, winners)
    THEN OddChips([players EXCEPT ![idx].stack = @ + 1], winners,
                  nextIndexClockwise(players, idx), remainder - 1, loop + 1)
    ELSE OddChips(players, winners, nextIndexClockwise(players, idx), remainder, loop + 1)

\* awardPot when the odd-chip walk starts at the dealer's own seat
PayWinners_FromDealer(state, pot, winners, oddChipStartIndex) ==
  [players |->
     OddChips([i \in SeatsOf(state.players) |->
                 IF InSeq(i, winners)
                   THEN [state.players[i] EXCEPT
                           !.stack = @ + (pot.amount \div Len(winners))]
                   ELSE state.players[i]],
              winners,
              oddChipStartIndex % Length(state.players),
              pot.amount - (pot.amount \div Len(winners)) * Len(winners),
              0),
   winners |-> winners]

\* awardPot once the winners are known: base share to each, then odd chips
PayWinners(state, pot, winners, oddChipStartIndex) ==
  [players |->
     OddChips([i \in SeatsOf(state.players) |->
                 IF InSeq(i, winners)
                   THEN [state.players[i] EXCEPT
                           !.stack = @ + (pot.amount \div Len(winners))]
                   ELSE state.players[i]],
              winners,
              (oddChipStartIndex + 1) % Length(state.players),
              pot.amount - (pot.amount \div Len(winners)) * Len(winners),
              0),
   winners |-> winners]

\* players after awardPot and the winner ids it returns
awardPot(state, pot, oddChipStartIndex) ==
  IF Len(pot.eligiblePlayers) = 0 THEN [players |-> state.players, winners |-> <<>>]
  ELSE PayWinners(state, pot,
                  PotWinners(state.players, pot.eligiblePlayers, 2,
                             state.players[pot.eligiblePlayers[1]].handStrength,
                             <<pot.eligiblePlayers[1]>>),
                  oddChipStartIndex)

\* new Set(...).add: append the ids not yet present
RECURSIVE AddAll(_, _)
AddAll(acc, ids) ==
  IF ids = <<>> THEN acc
  ELSE AddAll(IF InSeq(Head(ids), acc) THEN acc ELSE Append(acc, Head(ids)), Tail(ids))

\* the loop of resolveHand over next.pots, smallest level first
RECURSIVE AwardAll(_, _, _)
RECURSIVE AwardStep(_, _, _, _)
AwardStep(state, i, allWinners, r) ==
  AwardAll([state EXCEPT !.players = r.players], i + 1, AddAll(allWinners, r.winners))

AwardAll(state, i, allWinners) ==
  IF i > Len(state.pots) THEN [state EXCEPT !.winners = allWinners]
  ELSE AwardStep(state, i, allWinners, awardPot(state, state.pots[i], state.dealerIndex))

\* resolveHand: hands of the non-folded seats evaluated
EvaluateHands(state) ==
  [state EXCEPT
     !.phase = PHASES.SHOWDOWN,
     !.handOver = TRUE,
     !.players = [i \in SeatsOf(state.players) |->
        IF state.players[i].status = PLAYER_STATUS.FOLDED
             \/ Len(state.players[i].holeCards) < 2
          THEN state.players[i]
          ELSE [state.players[i] EXCEPT
                  !.handStrength = evaluateHand(state.players[i].holeCards,
                                                state.communityCards)]]]

\* next.pots = computeSidePots(next.players)
WithPots(state) == [state EXCEPT !.pots = computeSidePots(state.players)]

resolveHand(state) == AwardAll(WithPots(EvaluateHands(state)), 1, <<>>)

\* advanceStreet when the flop round leads straight to the river
DealStreet_SkipsTurn(state) ==
  IF state.phase = PHASES.PREFLOP
    THEN [dealCommunity(burnOne(state), 3) EXCEPT !.phase = PHASES.FLOP]
  ELSE IF state.phase \in {PHASES.FLOP, PHASES.TURN}
    THEN [dealCommunity(burnOne(state), 1) EXCEPT !.phase = PHASES.RIVER]
  ELSE state

\* the burn and the community cards of the street that starts
DealStreet(state) ==
  IF state.phase = PHASES.PREFLOP
    THEN [dealCommunity(burnOne(state), 3) EXCEPT !.phase = PHASES.FLOP]
  ELSE IF state.phase = PHASES.FLOP
    THEN [dealCommunity(burnOne(state), 1) EXCEPT !.phase = PHASES.TURN]
  ELSE IF state.phase = PHASES.TURN
    THEN [dealCommunity(burnOne(state), 1) EXCEPT !.phase = PHASES.RIVER]
  ELSE state

\* postflop first action: left of the dealer
StartStreet(state) ==
  [state EXCEPT !.betting.startingIndex = findNextToAct(state, state.dealerIndex),
                !.betting.currentActorIndex = findNextToAct(state, state.dealerIndex)]

\* the state after advanceStreet and its return value
advanceStreet(state) ==
  IF state.phase = PHASES.RIVER THEN [advanced |-> FALSE, state |-> state]
  ELSE [advanced |-> TRUE,
        state |-> StartStreet(resetBetsForNextStreet(DealStreet(state)))]

(* ------------------------------ applyAction --------------------------- *)

\* the fold-out branch without the payment to the player left
AwardFoldOut_NoPayment(state, pots) == [state EXCEPT !.pots = pots]

\* the fold-out branch: the whole committed pot to the player left
AwardFoldOut(state, pots) ==
  [state EXCEPT
     !.players[state.winners[1]].stack =
        @ + sum([i \in 1 .. Len(pots) |-> pots[i].amount]),
     !.pots = pots]

\* after advanceStreet: showdown when the river round is complete
AfterAdvance(a) == IF ~a.advanced THEN resolveHand(a.state) ELSE a.state

\* round completion once currentActorIndex is the next actor
CompleteRound(next) ==
  IF bettingRoundShouldEnd(next, next.betting.currentActorIndex)
    THEN AfterAdvance(advanceStreet(next))
    ELSE next

EndOrContinue(e, next, playerIndex) ==
  IF e.ended
    THEN AwardFoldOut(e.state, computeSidePots(e.state.players))
    ELSE CompleteRound([next EXCEPT !.betting.currentActorIndex =
                                       findNextToAct(next, playerIndex)])

\* the part of applyAction after the action is resolved: fold-out,
\* next actor, round completion, street advance or showdown
FinishAction(next, playerIndex) ==
  EndOrContinue(maybeEndHandIfOneLeft(next), next, playerIndex)

\* an early return of applyAction (the clone as it is at that point)
Rejected(next) == [accepted |-> FALSE, state |-> next]

Accepted(next) == [accepted |-> TRUE, state |-> next]

\* the BET branch when a request below the big blind is taken as it is
ResolveBet_NoMinimum(next, playerIndex, p, amount, legal) ==
  IF ~legal.canBet THEN Rejected(next)
  ELSE LET finalBet == clampInt(amount, 1, p.currentBet + p.stack)
           committed == Min(p.stack, Max(0, finalBet))
       IN  Accepted([next EXCEPT
                       !.players[playerIndex] = commitChips(p, finalBet),
                       !.betting.highestBetThisRound = p.currentBet + committed,
                       !.betting.minRaiseAmount = committed,
                       !.betting.lastFullRaiseSize = committed,
                       !.betting.actedSinceLastFullRaise = {playerIndex},
                       !.betting.lastReopenerIndex = playerIndex])

\* the BET branch
ResolveBet(next, playerIndex, p, amount, legal) ==
  IF ~legal.canBet THEN Rejected(next)
  ELSE LET betSize == clampInt(amount, 1, p.currentBet + p.stack)
           minBet == next.bbAmount
           finalBet == Max(minBet, betSize)
           committed == Min(p.stack, Max(0, finalBet))
       IN  Accepted([next EXCEPT
                       !.players[playerIndex] = commitChips(p, finalBet),
                       !.betting.highestBetThisRound = p.currentBet + committed,
                       !.betting.minRaiseAmount = committed,
                       !.betting.lastFullRaiseSize = committed,
                       !.betting.actedSinceLastFullRaise = {playerIndex},
                       !.betting.lastReopenerIndex = playerIndex])

\* the RAISE / ALL_IN branch when every raise, short or not, reopens action
ResolveRaise_AlwaysReopens(next, playerIndex, p, action, amount, legal) ==
  IF ~legal.canRaise /\ action # ACTS.ALL_IN THEN Rejected(next)
  ELSE LET highest == next.betting.highestBetThisRound
           desiredTotal == clampInt(amount, highest + 1, p.currentBet + p.stack)
           maxTotal == p.currentBet + p.stack
           isAllIn == action = ACTS.ALL_IN \/ desiredTotal >= maxTotal
           total == IF isAllIn THEN maxTotal ELSE desiredTotal
           raiseSize == total - highest
       IN  IF total <= highest THEN Rejected(next)
           ELSE IF ~isAllIn /\ raiseSize < next.betting.lastFullRaiseSize THEN Rejected(next)
           ELSE Accepted([next EXCEPT
                            !.players[playerIndex] = commitChips(p, total - p.currentBet),
                            !.betting.highestBetThisRound = total,
                            !.betting.lastFullRaiseSize = raiseSize,
                            !.betting.minRaiseAmount = raiseSize,
                            !.betting.actedSinceLastFullRaise = {playerIndex},
                            !.betting.lastReopenerIndex = playerIndex])

\* the RAISE / ALL_IN branch when a raise below the minimum is not rejected
ResolveRaise_AnySize(next, playerIndex, p, action, amount, legal) ==
  IF ~legal.canRaise /\ action # ACTS.ALL_IN THEN Rejected(next)
  ELSE LET highest == next.betting.highestBetThisRound
           desiredTotal == clampInt(amount, highest + 1, p.currentBet + p.stack)
           maxTotal == p.currentBet + p.stack
           isAllIn == action = ACTS.ALL_IN \/ desiredTotal >= maxTotal
           total == IF isAllIn THEN maxTotal ELSE desiredTotal
           raiseSize == total - highest
           meetsMinRaise == raiseSize >= next.betting.lastFullRaiseSize
       IN  IF total <= highest THEN Rejected(next)
           ELSE IF meetsMinRaise
             THEN Accepted([next EXCEPT
                              !.players[playerIndex] = commitChips(p, total - p.currentBet),
                              !.betting.highestBetThisRound = total,
                              !.betting.lastFullRaiseSize = raiseSize,
                              !.betting.minRaiseAmount = raiseSize,
                              !.betting.actedSinceLastFullRaise = {playerIndex},
                              !.betting.lastReopenerIndex = playerIndex])
             ELSE Accepted([next EXCEPT
                              !.players[playerIndex] = commitChips(p, total - p.currentBet),
                              !.betting.highestBetThisRound = total])

\* the RAISE / ALL_IN branch
ResolveRaise(next, playerIndex, p, action, amount, legal) ==
  IF ~legal.canRaise /\ action # ACTS.ALL_IN THEN Rejected(next)
  ELSE LET highest == next.betting.highestBetThisRound
           desiredTotal == clampInt(amount, highest + 1, p.currentBet + p.stack)
           maxTotal == p.currentBet + p.stack
           isAllIn == action = ACTS.ALL_IN \/ desiredTotal >= maxTotal
           total == IF isAllIn THEN maxTotal ELSE desiredTotal
           raiseSize == total - highest
           prevFullRaise == next.betting.lastFullRaiseSize
           meetsMinRaise == raiseSize >= prevFullRaise
       IN  IF total <= highest THEN Rejected(next)
           ELSE IF ~isAllIn /\ ~meetsMinRaise THEN Rejected(next)
           ELSE IF meetsMinRaise
             THEN Accepted([next EXCEPT
                              !.players[playerIndex] = commitChips(p, total - p.currentBet),
                              !.betting.highestBetThisRound = total,
                              !.betting.lastFullRaiseSize = raiseSize,
                              !.betting.minRaiseAmount = raiseSize,
                              !.betting.actedSinceLastFullRaise = {playerIndex},
                              !.betting.lastReopenerIndex = playerIndex])
             ELSE Accepted([next EXCEPT
                              !.players[playerIndex] = commitChips(p, total - p.currentBet),
                              !.betting.highestBetThisRound = total])

\* the resolution when a fold also takes the folder's bet off the table
ResolveAction_FoldClearsBet(next, playerIndex, action, amount, legal) ==
  IF action = ACTS.FOLD THEN
    Accepted([next EXCEPT !.players[playerIndex].status = PLAYER_STATUS.FOLDED,
                          !.players[playerIndex].currentBet = 0])
  ELSE IF action = ACTS.CHECK THEN
    IF ~legal.canCheck THEN Rejected(next) ELSE Accepted(next)
  ELSE IF action = ACTS.CALL THEN
    IF ~legal.canCall /\ legal.callAmount > 0 THEN Rejected(next)
    ELSE Accepted([next EXCEPT !.players[playerIndex] = commitChips(@, legal.callAmount)])
  ELSE IF action = ACTS.BET THEN
    ResolveBet(next, playerIndex, next.players[playerIndex], amount, legal)
  ELSE IF action = ACTS.RAISE \/ action = ACTS.ALL_IN THEN
    ResolveRaise(next, playerIndex, next.players[playerIndex], action, amount, legal)
  ELSE Rejected(next)

\* the action resolved on the clone `next`, in which the seat is already
\* marked as having acted; `legal` was computed before the mark
ResolveAction(next, playerIndex, action, amount, legal) ==
  IF action = ACTS.FOLD THEN
    Accepted([next EXCEPT !.players[playerIndex].status = PLAYER_STATUS.FOLDED])
  ELSE IF action = ACTS.CHECK THEN
    IF ~legal.canCheck THEN Rejected(next) ELSE Accepted(next)
  ELSE IF action = ACTS.CALL THEN
    IF ~legal.canCall /\ legal.callAmount > 0 THEN Rejected(next)
    ELSE Accepted([next EXCEPT !.players[playerIndex] = commitChips(@, legal.callAmount)])
  ELSE IF action = ACTS.BET THEN
    ResolveBet(next, playerIndex, next.players[playerIndex], amount, legal)
  ELSE IF action = ACTS.RAISE \/ action = ACTS.ALL_IN THEN
    ResolveRaise(next, playerIndex, next.players[playerIndex], action, amount, legal)
  ELSE Rejected(next)

\* a rejected action returns the clone, an accepted one goes on
Conclude(r, playerIndex) ==
  IF r.accepted THEN FinishAction(r.state, playerIndex) ELSE r.state

\* line 669-671: the seat is marked as having acted before the action is validated
MarkActed(state, playerIndex) ==
  [state EXCEPT !.betting.actedSinceLastFullRaise = @ \cup {playerIndex},
                !.betting.hasActedThisRound = TRUE]

\* applyAction from line 658 on: the hand is not over
ApplyToSeat(state, playerIndex, action, amount) ==
  IF playerIndex \notin SeatsOf(state.players) THEN state
  ELSE IF ~canAct(state.players[playerIndex]) THEN state
  ELSE Conclude(ResolveAction(MarkActed(state, playerIndex), playerIndex, action,
                              amount, getLegalActions(state, playerIndex)),
                playerIndex)

\* applyAction without the early return of line 656
applyAction_AfterHandOver(state, playerIndex, action, amount) ==
  ApplyToSeat(state, playerIndex, action, amount)

applyAction(state, playerIndex, action, amount) ==
  IF state.handOver THEN state
  ELSE ApplyToSeat(state, playerIndex, action, amount)

(* ------------------------------- actions ------------------------------ *)

\* requested amounts, one of them above every stack
Amounts == 0 .. (MaxStack + 1)

\* sums over the seats of a table
RECURSIVE SumOver(_, _)
SumOver(f, S) ==
  IF S = {} THEN 0
  ELSE LET x == CHOOSE y \in S : TRUE IN f[x] + SumOver(f, S \ {x})

TotalStacks(state) ==
  SumOver([i \in SeatsOf(state.players) |-> state.players[i].stack], SeatsOf(state.players))

TotalCommitted(state) ==
  SumOver([i \in SeatsOf(state.players) |-> state.players[i].totalCommitted],
          SeatsOf(state.players))

\* the stacks of a table, seat by seat
StacksOf(state) == [i \in SeatsOf(state.players) |-> state.players[i].stack]

\* the table as App.jsx and the self-tests construct it: createPlayers,
\* then createInitialGameState with dealerIndex 0; any stacks, since a
\* table carries its stacks from hand to hand
Init ==
  /\ \E n \in TableSizes, b \in BlindLevels :
       \E stacks \in [0 .. (n - 1) -> 0 .. MaxStack] :
          game = createInitialGameState([i \in 0 .. (n - 1) |-> createPlayer(i, stacks[i])],
                                        b.sb, b.bb, 0)
  /\ stacksBefore = StacksOf(game)

\* the caller starts the hand of an idle table
StartHand ==
  /\ game.phase = "idle"
  /\ \E k \in 1 .. MaxShuffles : game' = startHand(game, k)
  /\ stacksBefore' = StacksOf(game)

\* applyAction(game, seat, Fold) on a started hand, by any seat: the engine
\* takes the seat as an argument and the caller is free to pass any
Fold ==
  \E seat \in SeatsOf(game.players) :
    /\ game.phase # "idle"
    /\ game' = applyAction(game, seat, ACTS.FOLD, 0)
    /\ UNCHANGED stacksBefore

Check ==
  \E seat \in SeatsOf(game.players) :
    /\ game.phase # "idle"
    /\ game' = applyAction(game, seat, ACTS.CHECK, 0)
    /\ UNCHANGED stacksBefore

Call ==
  \E seat \in SeatsOf(game.players) :
    /\ game.phase # "idle"
    /\ game' = applyAction(game, seat, ACTS.CALL, 0)
    /\ UNCHANGED stacksBefore

Bet ==
  \E seat \in SeatsOf(game.players), amount \in Amounts :
    /\ game.phase # "idle"
    /\ game' = applyAction(game, seat, ACTS.BET, amount)
    /\ UNCHANGED stacksBefore

Raise ==
  \E seat \in SeatsOf(game.players), amount \in Amounts :
    /\ game.phase # "idle"
    /\ game' = applyAction(game, seat, ACTS.RAISE, amount)
    /\ UNCHANGED stacksBefore

AllIn ==
  \E seat \in SeatsOf(game.players) :
    /\ game.phase # "idle"
    /\ game' = applyAction(game, seat, ACTS.ALL_IN, 0)
    /\ UNCHANGED stacksBefore

Next == StartHand \/ Fold \/ Check \/ Call \/ Bet \/ Raise \/ AllIn

Spec == Init /\ [][Next]_vars

(* ------------------------ the resolver on its own --------------------- *)

Statuses == {PLAYER_STATUS.ACTIVE, PLAYER_STATUS.FOLDED, PLAYER_STATUS.ALL_IN,
             PLAYER_STATUS.ELIMINATED}

\* a table at hand end with any commitments and statuses, set up the way
\* testSidePots does: createPlayers, then totalCommitted and status assigned
InitPots ==
  /\ \E n \in TableSizes, b \in BlindLevels :
       \E committed \in [0 .. (n - 1) -> 0 .. MaxStack], st \in [0 .. (n - 1) -> Statuses] :
          game = createInitialGameState(
                   [i \in 0 .. (n - 1) |->
                      [createPlayer(i, 0) EXCEPT !.totalCommitted = committed[i],
                                                 !.status = st[i]]],
                   b.sb, b.bb, 0)
  /\ stacksBefore = StacksOf(game)

\* pots = computeSidePots(players)
ComputePots ==
  /\ game.pots = <<>>
  /\ game' = WithPots(game)
  /\ UNCHANGED stacksBefore

NextPots == ComputePots

SpecPots == InitPots /\ [][NextPots]_vars

(* ------------------------ the showdown on its own ---------------------- *)

\* number of cards of EvalDeck the hands are drawn from
EvalCards == 9

\* card of a rank (2 .. 14) and a suit (0 .. 3) in the numbering of createDeck
CardOf(rank, suit) == 13 * suit + (rank - 2)

\* the cards hands are drawn from, most useful first: A 2 3 4 5 6 of one
\* suit (straights, the wheel, flushes), then further 2s and 3s (pairs, two
\* pair, trips, full house, quads), then kings and a queen
EvalDeck ==
  <<CardOf(14, 0), CardOf(2, 0), CardOf(3, 0), CardOf(4, 0), CardOf(5, 0), CardOf(6, 0),
    CardOf(2, 1), CardOf(3, 1), CardOf(2, 2), CardOf(2, 3), CardOf(3, 2),
    CardOf(13, 1), CardOf(13, 2), CardOf(12, 1)>>

EvalUniverse == {EvalDeck[i] : i \in 1 .. Min(EvalCards, Len(EvalDeck))}

\* the subsets of a set that have k elements
SubsetsOfSize(S, k) == {T \in SUBSET S : Cardinality(T) = k}

\* the street on which the board has that many cards
PhaseOfBoard(size) ==
  IF size = 3 THEN PHASES.FLOP ELSE IF size = 4 THEN PHASES.TURN ELSE PHASES.RIVER

\* a heads-up table about to be resolved, set up the way the self-tests set
\* up a state: createPlayers and createInitialGameState, then the cards and
\* one chip of commitment per seat assigned; any board of 3, 4 or 5 cards
\* and any two hole cards per seat, the seat holding the lowest hole card
\* first (the two seats are alike but for their cards)
InitShowdown ==
  /\ \E size \in {3, 4, 5}, b \in BlindLevels :
       \E board \in SubsetsOfSize(EvalUniverse, size) :
         \E h0 \in SubsetsOfSize(EvalUniverse \ board, 2) :
           \E h1 \in SubsetsOfSize((EvalUniverse \ board) \ h0, 2) :
             /\ SortAsc(h0)[1] < SortAsc(h1)[1]
             /\ game = [createInitialGameState(
                       [i \in 0 .. 1 |->
                          [createPlayer(i, 1) EXCEPT
                             !.holeCards = SortAsc(IF i = 0 THEN h0 ELSE h1),
                             !.totalCommitted = 1]],
                       b.sb, b.bb, 0)
                       EXCEPT !.communityCards = SortAsc(board),
                              !.phase = PhaseOfBoard(size)]
  /\ stacksBefore = [i \in SeatsOf(game.players) |->
                       game.players[i].stack + game.players[i].totalCommitted]

\* resolveHand(game)
Showdown ==
  /\ ~game.handOver
  /\ game' = resolveHand(game)
  /\ UNCHANGED stacksBefore

NextShowdown == Showdown

SpecShowdown == InitShowdown /\ [][NextShowdown]_vars

(* ----------------------- the call / check policy ---------------------- *)

\* the action of the seat to act under the policy of testBurnAndStreets:
\* call when it owes chips, check otherwise
PolicyAction(state) ==
  IF state.players[state.betting.currentActorIndex].currentBet
       < state.betting.highestBetThisRound
    THEN ACTS.CALL ELSE ACTS.CHECK

CallOrCheck ==
  /\ game.phase # "idle"
  /\ game.betting.currentActorIndex \in SeatsOf(game.players)
  /\ game' = applyAction(game, game.betting.currentActorIndex, PolicyAction(game), 0)
  /\ UNCHANGED stacksBefore

NextCallCheck == StartHand \/ CallOrCheck

SpecCallCheck == Init /\ [][NextCallCheck]_vars

(* --------------------- the table as App.jsx drives it ----------------- *)

\* the largest starting stack of a table driven in turn
TurnStack == 5

\* requested amounts, one of them above every stack
TurnAmounts == 0 .. (TurnStack + 1)

\* the seat App.jsx lets act: currentActorIndex of a started hand that is not
\* over, when it names a seat
ToAct(state) ==
  IF state.phase # "idle" /\ ~state.handOver
       /\ state.betting.currentActorIndex \in SeatsOf(state.players)
    THEN {state.betting.currentActorIndex}
    ELSE {}

\* heads-up with any stacks, three-handed with the two deepest stacks (the
\* short three-handed tables are those of Init)
InitTurns ==
  /\ \E n \in TableSizes, b \in BlindLevels :
       \E stacks \in [0 .. (n - 1) -> (IF n = 2 THEN 0 ELSE TurnStack - 1) .. TurnStack] :
          game = createInitialGameState([i \in 0 .. (n - 1) |-> createPlayer(i, stacks[i])],
                                        b.sb, b.bb, 0)
  /\ stacksBefore = StacksOf(game)

\* applyAction for the seat to act, as the bot effect and the human controls
\* of App.jsx call it
TurnFold ==
  \E seat \in ToAct(game) :
    game' = applyAction(game, seat, ACTS.FOLD, 0) /\ UNCHANGED stacksBefore

TurnCheck ==
  \E seat \in ToAct(game) :
    game' = applyAction(game, seat, ACTS.CHECK, 0) /\ UNCHANGED stacksBefore

TurnCall ==
  \E seat \in ToAct(game) :
    game' = applyAction(game, seat, ACTS.CALL, 0) /\ UNCHANGED stacksBefore

TurnBet ==
  \E seat \in ToAct(game), amount \in TurnAmounts :
    game' = applyAction(game, seat, ACTS.BET, amount) /\ UNCHANGED stacksBefore

TurnRaise ==
  \E seat \in ToAct(game), amount \in TurnAmounts :
    game' = applyAction(game, seat, ACTS.RAISE, amount) /\ UNCHANGED stacksBefore

TurnAllIn ==
  \E seat \in ToAct(game) :
    game' = applyAction(game, seat, ACTS.ALL_IN, 0) /\ UNCHANGED stacksBefore

NextTurns == StartHand \/ TurnFold \/ TurnCheck \/ TurnCall \/ TurnBet \/ TurnRaise \/ TurnAllIn

SpecTurns == InitTurns /\ [][NextTurns]_vars

(* ------------------------ hand after hand in App.jsx ------------------ *)

\* the largest starting stack of a table played hand after hand
HandStack == 3

\* the table created by App.jsx: every seat starts with chips
InitHands ==
  /\ \E n \in TableSizes, b \in BlindLevels :
       \E stacks \in [0 .. (n - 1) -> 1 .. HandStack] :
          game = createInitialGameState([i \in 0 .. (n - 1) |-> createPlayer(i, stacks[i])],
                                        b.sb, b.bb, 0)
  /\ stacksBefore = StacksOf(game)

\* startNewHand of App.jsx, offered when the table is idle or at showdown:
\* the dealer button moves one seat and the engine starts the hand
StartNewHand ==
  /\ game.phase \in {"idle", PHASES.SHOWDOWN}
  /\ \E k \in 1 .. MaxShuffles :
       game' = startHand([game EXCEPT !.dealerIndex = (@ + 1) % Length(game.players)], k)
  /\ stacksBefore' = StacksOf(game)

NextHands == StartNewHand \/ TurnFold \/ TurnCheck \/ TurnCall \/ TurnAllIn

SpecHands == InitHands /\ [][NextHands]_vars

(* ------------------------------- claims ------------------------------- *)

Started == game.phase # "idle"

ActionKinds == {ACTS.FOLD, ACTS.CHECK, ACTS.CALL, ACTS.BET, ACTS.RAISE, ACTS.ALL_IN}

PotTotal(pots) == sum([i \in 1 .. Len(pots) |-> pots[i].amount])

\* C1: when a hand is over (showdown or fold-out), the stacks sum to what
\* they summed to immediately before startHand: no chip is created or lost.
C1_ChipsConservedAtHandOver ==
  game.handOver => TotalStacks(game) = SumOver(stacksBefore, DOMAIN stacksBefore)

\* C2: while a started hand is not over, stacks plus commitments sum to the
\* stacks before startHand, no stack is negative, and every seat has
\* totalCommitted >= currentBet >= 0.
C2_ChipsAccountedDuringHand ==
  (Started /\ ~game.handOver) =>
    /\ TotalStacks(game) + TotalCommitted(game) = SumOver(stacksBefore, DOMAIN stacksBefore)
    /\ \A i \in SeatsOf(game.players) :
         /\ game.players[i].stack >= 0
         /\ game.players[i].totalCommitted >= game.players[i].currentBet
         /\ game.players[i].currentBet >= 0

\* a flop bet on top of preflop commitments, one seat short of chips
C2_Witness ==
  /\ game.phase = PHASES.FLOP /\ ~game.handOver
  /\ \E i \in SeatsOf(game.players) :
       game.players[i].currentBet > 0
       /\ game.players[i].totalCommitted > game.players[i].currentBet
  /\ \E i \in SeatsOf(game.players) : game.players[i].status = PLAYER_STATUS.ALL_IN

\* C3: for any commitments and statuses, the amounts of the pots of
\* computeSidePots sum to the sum of the totalCommitted of all players.
C3_PotsSumToCommitted ==
  PotTotal(computeSidePots(game.players)) = TotalCommitted(game)

\* three pots computed, one contributor folded
C3_Witness ==
  /\ Len(game.pots) = 3
  /\ \E i \in SeatsOf(game.players) :
       game.players[i].status = PLAYER_STATUS.FOLDED /\ game.players[i].totalCommitted > 0

\* the actions the claim C4 calls illegal for the seat to act
IllegalInTurn(state, i, kind, amount) ==
  LET p == state.players[i]
      legal == getLegalActions(state, i)
      highest == state.betting.highestBetThisRound
  IN  \/ kind = ACTS.CHECK /\ legal.callAmount > 0
      \/ kind = ACTS.BET /\ highest > 0
      \/ kind = ACTS.RAISE /\ ~legal.canRaise
      \/ kind = ACTS.RAISE /\ amount > highest /\ amount < p.currentBet + p.stack
           /\ amount - highest < state.betting.lastFullRaiseSize

\* C4: an illegal action by the seat whose turn it is returns a state equal
\* to the input state in every field.
C4_IllegalActionLeavesStateUnchanged ==
  (Started /\ ~game.handOver /\ game.betting.currentActorIndex \in SeatsOf(game.players)) =>
    \A kind \in ActionKinds, amount \in Amounts :
      (canAct(game.players[game.betting.currentActorIndex])
        /\ IllegalInTurn(game, game.betting.currentActorIndex, kind, amount))
        => applyAction(game, game.betting.currentActorIndex, kind, amount) = game

\* C5: applyAction for a seat that is not currentActorIndex returns a state
\* equal to the input state, whatever the action kind.
C5_OutOfTurnRejected ==
  Started =>
    \A i \in SeatsOf(game.players), kind \in ActionKinds, amount \in Amounts :
      i # game.betting.currentActorIndex => applyAction(game, i, kind, amount) = game

\* an all-in of seat i would exceed the highest bet by less than the last full raise
ShortAllIn(state, i) ==
  /\ ~state.handOver
  /\ canAct(state.players[i])
  /\ state.players[i].currentBet + state.players[i].stack > state.betting.highestBetThisRound
  /\ state.players[i].currentBet + state.players[i].stack
       - state.betting.highestBetThisRound < state.betting.lastFullRaiseSize

\* the all-in actions of seat i: ALL_IN, or a legal RAISE to its whole stack
AllInMoves(state, i) ==
  {ACTS.ALL_IN} \cup (IF getLegalActions(state, i).canRaise THEN {ACTS.RAISE} ELSE {})

\* what the claim C6 says a short all-in of seat i does to the betting state
ShortAllInEffect(before, after, i) ==
  /\ after.betting.highestBetThisRound = before.players[i].currentBet + before.players[i].stack
  /\ after.betting.actedSinceLastFullRaise \ {i} = before.betting.actedSinceLastFullRaise \ {i}
  /\ after.betting.lastReopenerIndex = before.betting.lastReopenerIndex
  /\ after.betting.lastFullRaiseSize = before.betting.lastFullRaiseSize
  /\ after.betting.minRaiseAmount = before.betting.minRaiseAmount

\* C6 (as stated): a short all-in sets highestBetThisRound to the new total
\* and leaves the other seats' acted flags, lastReopenerIndex,
\* lastFullRaiseSize and minRaiseAmount unchanged.
C6_ShortAllInAsStated ==
  Started =>
    \A i \in SeatsOf(game.players) :
      ShortAllIn(game, i) =>
        \A kind \in AllInMoves(game, i) :
          ShortAllInEffect(game,
            applyAction(game, i, kind, game.players[i].currentBet + game.players[i].stack), i)

\* C6 (amended): the same, for a short all-in that does not complete the
\* betting round before the river; one that does (no seat left able to act)
\* advances the street, which resets the per-street betting fields.
C6_ShortAllInDoesNotReopen ==
  Started =>
    \A i \in SeatsOf(game.players) :
      ShortAllIn(game, i) =>
        \A kind \in AllInMoves(game, i) :
          LET after == applyAction(game, i, kind,
                                   game.players[i].currentBet + game.players[i].stack)
          IN  (after.phase = game.phase \/ after.phase = PHASES.SHOWDOWN)
                => ShortAllInEffect(game, after, i)

\* a short all-in is available while another seat has acted since the last
\* full raise, and it keeps the street
C6_Witness ==
  /\ Started
  /\ \E i \in SeatsOf(game.players) :
       /\ ShortAllIn(game, i)
       /\ game.betting.actedSinceLastFullRaise \ {i} # {}
       /\ applyAction(game, i, ACTS.ALL_IN, 0).phase = game.phase
       /\ applyAction(game, i, ACTS.ALL_IN, 0).betting.highestBetThisRound
            > game.betting.highestBetThisRound

\* C7: no applyAction by a seat that has acted since the last full raise,
\* of any kind, increases highestBetThisRound.
C7_ActedSeatCannotRaise ==
  Started =>
    \A i \in game.betting.actedSinceLastFullRaise, kind \in ActionKinds, amount \in Amounts :
      applyAction(game, i, kind, amount).betting.highestBetThisRound
        <= game.betting.highestBetThisRound

\* two seats that brought the same positive stack to the hand
HeadsUpEqualStacks ==
  /\ DOMAIN stacksBefore = {0, 1}
  /\ stacksBefore[0] = stacksBefore[1]
  /\ stacksBefore[0] > 0

\* the call / check policy can take no further step
PolicyDone ==
  \/ game.betting.currentActorIndex \notin SeatsOf(game.players)
  \/ applyAction(game, game.betting.currentActorIndex, PolicyAction(game), 0) = game

\* C8: heads-up with equal stacks, when the seat to act always calls or
\* checks, the hand ends at showdown with exactly 5 community cards: the
\* policy never comes to rest anywhere else.
C8_HeadsUpCallCheckReachesShowdown ==
  (Started /\ HeadsUpEqualStacks /\ PolicyDone) =>
    /\ game.handOver
    /\ game.phase = PHASES.SHOWDOWN
    /\ Len(game.communityCards) = 5

\* the one seat still in the hand
LastSeat(state) == CHOOSE i \in remainingInHand(state) : TRUE

CommitLevels(players) ==
  {players[i].totalCommitted : i \in SeatsOf(players)} \ {0}

\* the elements of a sequence as a set
SeqToSet(s) == {s[i] : i \in 1 .. Len(s)}

\* the players of testSidePots: 100 all-in, 200 all-in, 200 folded, 500 active
SidePotsExample ==
  [i \in 0 .. 3 |->
     [createPlayer(i, 0) EXCEPT
        !.totalCommitted = IF i = 0 THEN 100 ELSE IF i = 3 THEN 500 ELSE 200,
        !.status = IF i = 2 THEN PLAYER_STATUS.FOLDED
                   ELSE IF i = 3 THEN PLAYER_STATUS.ACTIVE ELSE PLAYER_STATUS.ALL_IN]]

\* C11: computeSidePots returns one pot per distinct positive commitment
\* level, ascending; the pot of level L with previous level P holds
\* (L - P) * (number of players committed >= L) and its eligible players are
\* exactly the non-folded players committed >= L; for 100 all-in, 200 all-in,
\* 200 folded, 500 active the pots are 400, 300, 300.
C11_OnePotPerLevel ==
  /\ LET pots == computeSidePots(game.players)
         levels == CommitLevels(game.players)
     IN  /\ Len(pots) = Cardinality(levels)
         /\ \A L \in levels :
              LET k == Cardinality({l \in levels : l <= L})
                  P == IF k = 1 THEN 0
                       ELSE CHOOSE l \in levels :
                              l < L /\ \A m \in levels : m < L => m <= l
                  atLeast == {i \in SeatsOf(game.players) :
                                game.players[i].totalCommitted >= L}
              IN  /\ pots[k].amount = (L - P) * Cardinality(atLeast)
                  /\ SeqToSet(pots[k].eligiblePlayers)
                       = {i \in atLeast : game.players[i].status # PLAYER_STATUS.FOLDED}
                  /\ Len(pots[k].eligiblePlayers)
                       = Cardinality(SeqToSet(pots[k].eligiblePlayers))
  /\ computeSidePots(SidePotsExample)
       = <<[amount |-> 400, eligiblePlayers |-> <<0, 1, 3>>],
           [amount |-> 300, eligiblePlayers |-> <<1, 3>>],
           [amount |-> 300, eligiblePlayers |-> <<3>>]>>

\* pots computed for two commitment levels, the contributor of the upper
\* level folded: its pot has fewer eligible players than contributors
C11_Witness ==
  /\ Len(game.pots) = 2
  /\ Cardinality(CommitLevels(game.players)) = 2
  /\ \E i \in SeatsOf(game.players) :
       /\ game.players[i].status = PLAYER_STATUS.FOLDED
       /\ \A j \in SeatsOf(game.players) :
            game.players[j].totalCommitted <= game.players[i].totalCommitted
  /\ Len(game.pots[2].eligiblePlayers) < Len(game.pots[1].eligiblePlayers)

\* the hand was resolved at showdown (not ended by folds)
AtShowdown == game.handOver /\ Cardinality(remainingInHand(game)) >= 2

\* the state resolveHand awarded from: hands evaluated, pots computed, every
\* stack still what the seat kept after its commitments
BeforeAward ==
  [game EXCEPT !.players =
     [i \in SeatsOf(game.players) |->
        [game.players[i] EXCEPT
           !.stack = stacksBefore[i] - game.players[i].totalCommitted]]]

\* the eligible seats of a pot whose score no eligible seat beats
BestScorers(state, pot) ==
  {i \in SeqToSet(pot.eligiblePlayers) :
     \A j \in SeqToSet(pot.eligiblePlayers) :
       compareHandsResults(state.players[i].handStrength,
                           state.players[j].handStrength) >= 0}

\* how many seats of W are met walking clockwise from the seat left of the
\* dealer up to seat i
MetUpTo(state, W, i) ==
  LET n == Length(state.players)
      d(j) == (j + n - ((state.dealerIndex + 1) % n)) % n
  IN  Cardinality({j \in W : d(j) <= d(i)})

\* C12: for each pot awarded at showdown with k winners (the eligible seats
\* of maximal score), every winner receives floor(amount / k), the
\* (amount mod k) leftover chips go one each to the first winners clockwise
\* from the seat left of the dealer, no other seat receives a chip of the
\* pot, and the chips handed out sum to the pot amount.
C12_PotSplitWithOddChips ==
  AtShowdown =>
    /\ game.players = AwardAll(BeforeAward, 1, <<>>).players
    /\ \A p \in 1 .. Len(game.pots) :
         Len(game.pots[p].eligiblePlayers) > 0 =>
           LET pot == game.pots[p]
               r == awardPot(BeforeAward, pot, game.dealerIndex)
               W == BestScorers(BeforeAward, pot)
               k == Cardinality(W)
               gain(i) == r.players[i].stack - BeforeAward.players[i].stack
           IN  /\ SeqToSet(r.winners) = W
               /\ \A i \in SeatsOf(game.players) \ W : gain(i) = 0
               /\ \A i \in W :
                    gain(i) = (pot.amount \div k)
                              + (IF MetUpTo(BeforeAward, W, i) <= pot.amount % k
                                   THEN 1 ELSE 0)
               /\ SumOver([i \in SeatsOf(game.players) |-> gain(i)],
                          SeatsOf(game.players)) = pot.amount

\* a showdown that split a pot with a leftover chip among tied winners
C12_Witness ==
  /\ AtShowdown
  /\ \E p \in 1 .. Len(game.pots) :
       /\ Cardinality(BestScorers(BeforeAward, game.pots[p])) >= 2
       /\ game.pots[p].amount % Cardinality(BestScorers(BeforeAward, game.pots[p])) > 0

\* what the claim C13 says AllIn by seat i does to that seat (the stack is
\* compared while the hand is not over, since the end of the hand pays the
\* winners, and currentBet while the street is the same, since a new street
\* resets it)
WentAllIn(before, after, i) ==
  /\ ~after.handOver => after.players[i].stack = 0
  /\ after.players[i].status = PLAYER_STATUS.ALL_IN
  /\ after.players[i].totalCommitted
       = before.players[i].totalCommitted + before.players[i].stack
  /\ after.phase = before.phase =>
       after.players[i].currentBet = before.players[i].currentBet + before.players[i].stack

\* C13: whenever getLegalActions reports canAllIn for the seat to act,
\* applyAction with AllIn is accepted: the seat is left with stack 0, status
\* AllIn and its whole stack added to currentBet and totalCommitted, also
\* when currentBet + stack does not exceed highestBetThisRound.
C13_AllInAlwaysAccepted ==
  (Started /\ game.betting.currentActorIndex \in SeatsOf(game.players)) =>
    (getLegalActions(game, game.betting.currentActorIndex).canAllIn
       => WentAllIn(game,
                    applyAction(game, game.betting.currentActorIndex, ACTS.ALL_IN, 0),
                    game.betting.currentActorIndex))

\* currentBet of seat i when the step's action was resolved, before a new
\* street reset it: its bet before the step plus what the step committed
BetAfterAction(i) ==
  game.players[i].currentBet
    + (game'.players[i].totalCommitted - game.players[i].totalCommitted)

\* highestBetThisRound when the step's action was resolved
HighestAfterAction ==
  LET bets == {BetAfterAction(i) : i \in SeatsOf(game.players)}
             \cup {game.betting.highestBetThisRound}
  IN  CHOOSE h \in bets :
        /\ h >= game.betting.highestBetThisRound
        /\ \A i \in SeatsOf(game.players) :
             game'.players[i].totalCommitted # game.players[i].totalCommitted
               => h >= BetAfterAction(i)
        /\ \/ h = game.betting.highestBetThisRound
           \/ \E i \in SeatsOf(game.players) :
                /\ game'.players[i].totalCommitted # game.players[i].totalCommitted
                /\ h = BetAfterAction(i)

\* the step completed a betting round: the street advanced or the river
\* round went to showdown
RoundCompleted ==
  /\ Started /\ ~game.handOver
  /\ game'.phase # game.phase
  /\ Cardinality(remainingInHand(game')) >= 2

\* C14: applyAction completes a betting round (street advanced, or river
\* routed to resolveHand) only when every Active player's currentBet equals
\* highestBetThisRound: no street advances while a seat that can act owes.
C14_RoundEndsOnlyWhenSettled ==
  [][RoundCompleted =>
       \A i \in SeatsOf(game.players) :
         game'.players[i].status = PLAYER_STATUS.ACTIVE
           => BetAfterAction(i) = HighestAfterAction]_vars

\* a flop reached with two seats still Active for the same commitment and a
\* third all-in for less
C14_Witness ==
  /\ game.phase = PHASES.FLOP /\ ~game.handOver
  /\ \E i, j, a \in SeatsOf(game.players) :
       /\ i # j
       /\ game.players[i].status = PLAYER_STATUS.ACTIVE
       /\ game.players[j].status = PLAYER_STATUS.ACTIVE
       /\ game.players[i].totalCommitted = game.players[j].totalCommitted
       /\ game.players[a].status = PLAYER_STATUS.ALL_IN
       /\ game.players[a].totalCommitted < game.players[i].totalCommitted

\* number of community cards a betting street shows
BoardSize(phase) ==
  IF phase = PHASES.PREFLOP THEN 0
  ELSE IF phase = PHASES.FLOP THEN 3
  ELSE IF phase = PHASES.TURN THEN 4
  ELSE 5

Streets == {PHASES.PREFLOP, PHASES.FLOP, PHASES.TURN, PHASES.RIVER}

\* the count cards below the top card of the deck, in the order they are popped
NextCards(deck, count) == [c \in 1 .. count |-> deck[Len(deck) - c]]

\* the step moved from street `from` to street `to` burning 1 and dealing `count`
StreetDealt(from, to, count) ==
  (game.phase = from /\ game'.phase = to) =>
    /\ Len(game'.deck) = Len(game.deck) - (count + 1)
    /\ game'.deck = SubSeq(game.deck, 1, Len(game.deck) - (count + 1))
    /\ game'.communityCards = game.communityCards \o NextCards(game.deck, count)

\* C15: the number of community cards matches the phase (Preflop 0, Flop 3,
\* Turn 4, River 5); Preflop to Flop takes 4 cards off the deck (1 burned,
\* 3 dealt), Flop to Turn and Turn to River 2 each (1 burned, 1 dealt), and
\* completing the River round deals no card and resolves the hand.
C15_BoardMatchesPhase ==
  /\ [](game.phase \in Streets => Len(game.communityCards) = BoardSize(game.phase))
  /\ [][/\ StreetDealt(PHASES.PREFLOP, PHASES.FLOP, 3)
        /\ StreetDealt(PHASES.FLOP, PHASES.TURN, 1)
        /\ StreetDealt(PHASES.TURN, PHASES.RIVER, 1)
        /\ (game.phase = PHASES.RIVER /\ game'.phase # PHASES.RIVER)
             => /\ game'.handOver
                /\ game'.phase = PHASES.SHOWDOWN
                /\ game'.deck = game.deck
                /\ game'.communityCards = game.communityCards]_vars

\* a river resolved at showdown: 5 community cards, 3 burned, 2 hole cards
\* for every seat dealt in
C15_Witness ==
  /\ AtShowdown
  /\ Len(game.communityCards) = 5
  /\ Len(game.deck) + 8
       + 2 * Cardinality({i \in SeatsOf(game.players) :
                            game.players[i].status # PLAYER_STATUS.ELIMINATED}) = 52

\* the blind seats of a table: left of the dealer, and the next one
SmallBlindSeat(state) == (state.dealerIndex + 1) % Length(state.players)

BigBlindSeat(state) == (state.dealerIndex + 2) % Length(state.players)

\* seat i of `after` has posted min(stack, blind) of the stack it had in
\* `before`, and is all-in when that used its whole stack
PostedBlind(before, after, i, blind) ==
  LET posted == Min(before.players[i].stack, blind)
  IN  /\ after.players[i].totalCommitted = posted
      /\ after.players[i].currentBet = posted
      /\ after.players[i].stack = before.players[i].stack - posted
      /\ (posted > 0 /\ after.players[i].stack = 0)
           => after.players[i].status = PLAYER_STATUS.ALL_IN

\* clockwise distance from the big blind to seat i, 1 .. n (n is the big blind itself)
FromBigBlind(state, i) ==
  LET n == Length(state.players)
  IN  ((i + n - BigBlindSeat(state) - 1) % n) + 1

\* C16: after startHand the phase is Preflop, both blind seats have committed
\* min(stack, blind) and a poster whose stack is used up is AllIn,
\* highestBetThisRound is the larger posted amount, lastReopenerIndex is the
\* big-blind seat, and currentActorIndex = startingIndex = the first seat
\* clockwise after the big blind that is Active with stack > 0.
C16_StartHandPostsBlinds ==
  [][game.phase = "idle" =>
       /\ game'.phase = PHASES.PREFLOP
       /\ PostedBlind(game, game', SmallBlindSeat(game), game.sbAmount)
       /\ PostedBlind(game, game', BigBlindSeat(game), game.bbAmount)
       /\ game'.betting.highestBetThisRound
            = Max(game'.players[SmallBlindSeat(game)].totalCommitted,
                  game'.players[BigBlindSeat(game)].totalCommitted)
       /\ game'.betting.lastReopenerIndex = BigBlindSeat(game)
       /\ game'.betting.currentActorIndex = game'.betting.startingIndex
       /\ \A i \in SeatsOf(game.players) :
            (/\ canAct(game'.players[i])
             /\ \A j \in SeatsOf(game.players) :
                  canAct(game'.players[j]) => FromBigBlind(game, i) <= FromBigBlind(game, j))
              => game'.betting.currentActorIndex = i]_vars

\* a hand just started in which the big blind was posted short, all-in, and
\* the seat to act is not the seat next to the big blind
C16_Witness ==
  /\ game.phase = PHASES.PREFLOP /\ ~game.betting.hasActedThisRound
  /\ game.players[BigBlindSeat(game)].status = PLAYER_STATUS.ALL_IN
  /\ game.players[BigBlindSeat(game)].totalCommitted < game.bbAmount
  /\ game.betting.highestBetThisRound = game.sbAmount
  /\ game.betting.currentActorIndex \in SeatsOf(game.players)
  /\ FromBigBlind(game, game.betting.currentActorIndex) > 1

\* the cards evaluateHand sees for seat i: hole cards, then the board
CardsOfSeat(state, i) == state.players[i].holeCards \o state.communityCards

RankSet(cards) == {getRankValue(cards[k]) : k \in 1 .. Len(cards)}

\* how many of the cards have rank r
RankCount(cards, r) ==
  Cardinality({k \in 1 .. Len(cards) : getRankValue(cards[k]) = r})

AllOneSuit(cards) == \A k \in 1 .. Len(cards) : SuitOf(cards[k]) = SuitOf(cards[1])

IsWheel(cards) == Len(cards) = 5 /\ RankSet(cards) = {14, 2, 3, 4, 5}

IsSixHighStraight(cards) == Len(cards) = 5 /\ RankSet(cards) = {2, 3, 4, 5, 6}

\* five ranks in a row, or the wheel
IsStraightRanks(cards) ==
  /\ Cardinality(RankSet(cards)) = 5
  /\ \/ IsWheel(cards)
     \/ \A r, q \in RankSet(cards) : r - q <= 4

\* 5 cards that are high card, a pair, two pair or trips
BelowStraight(cards) ==
  /\ Len(cards) = 5
  /\ ~AllOneSuit(cards)
  /\ ~IsStraightRanks(cards)
  /\ Cardinality(RankSet(cards)) >= 3

IsTwoPair(cards) ==
  /\ Len(cards) = 5
  /\ Cardinality(RankSet(cards)) = 3
  /\ \A r \in RankSet(cards) : RankCount(cards, r) <= 2

\* [higher pair, lower pair, single card] of a two-pair hand
TwoPairKickers(cards) ==
  LET pairs == {r \in RankSet(cards) : RankCount(cards, r) = 2}
      hi == CHOOSE r \in pairs : \A q \in pairs : q <= r
      lo == CHOOSE r \in pairs : \A q \in pairs : q >= r
      single == CHOOSE r \in RankSet(cards) : RankCount(cards, r) = 1
  IN  <<hi, lo, single>>

\* aces and kings with a deuce; kings and queens with an ace
AcesAndKings == evaluateHand(<<CardOf(14, 0), CardOf(14, 1)>>,
                             <<CardOf(13, 0), CardOf(13, 1), CardOf(2, 0)>>)

KingsAndQueens == evaluateHand(<<CardOf(13, 2), CardOf(13, 3)>>,
                               <<CardOf(12, 0), CardOf(12, 1), CardOf(14, 2)>>)

\* the hand was resolved with a board of that many cards
ResolvedWithBoard(size) == game.handOver /\ Len(game.communityCards) = size

\* C17: of 5 cards, the wheel A-2-3-4-5 is a straight with kickers
\* [5,4,3,2,1]: it beats every high-card, pair, two-pair and trips hand and
\* loses to the 6-high straight; two pair is ordered higher pair, lower pair,
\* single kicker (aces and kings beat kings and queens with an ace).
C17_WheelAndTwoPair ==
  /\ ResolvedWithBoard(3) =>
       \A i, j \in SeatsOf(game.players) :
         LET mine == CardsOfSeat(game, i)
             theirs == CardsOfSeat(game, j)
             a == game.players[i].handStrength
             b == game.players[j].handStrength
         IN  /\ IsWheel(mine) =>
                  a = [tier |-> IF AllOneSuit(mine) THEN 8 ELSE 4,
                       kickers |-> <<5, 4, 3, 2, 1>>]
             /\ (IsWheel(mine) /\ ~AllOneSuit(mine) /\ BelowStraight(theirs)) =>
                  compareHandsResults(a, b) = 1 /\ compareHandsResults(b, a) = -1
             /\ (IsWheel(mine) /\ ~AllOneSuit(mine) /\ IsSixHighStraight(theirs)) =>
                  compareHandsResults(a, b) = -1 /\ compareHandsResults(b, a) = 1
             /\ IsTwoPair(mine) =>
                  a = [tier |-> 2, kickers |-> TwoPairKickers(mine)]
  /\ AcesAndKings = [tier |-> 2, kickers |-> <<14, 13, 2>>]
  /\ KingsAndQueens = [tier |-> 2, kickers |-> <<13, 12, 14>>]
  /\ compareHandsResults(AcesAndKings, KingsAndQueens) = 1
  /\ compareHandsResults(KingsAndQueens, AcesAndKings) = -1

\* a resolved flop on which one seat holds the wheel and the other trips
C17_Witness ==
  /\ ResolvedWithBoard(3)
  /\ \E i, j \in SeatsOf(game.players) :
       /\ IsWheel(CardsOfSeat(game, i)) /\ ~AllOneSuit(CardsOfSeat(game, i))
       /\ game.players[i].handStrength.tier = 4
       /\ game.players[j].handStrength.tier = 3
       /\ game.winners = <<i>>

\* position k is the first at which the kicker sequences differ
FirstDifference(ak, bk, k) ==
  /\ k <= Len(ak) /\ k <= Len(bk)
  /\ ak[k] # bk[k]
  /\ \A m \in 1 .. (k - 1) : ak[m] = bk[m]

\* C18: on scores produced by the evaluator, compareHandsResults is a
\* consistent ordering: a higher tier wins; for equal tiers the first
\* differing kicker decides and identical kicker sequences tie; and
\* compare(a, b) = -compare(b, a).
C18_CompareIsConsistent ==
  game.handOver =>
    \A i, j \in SeatsOf(game.players) :
      LET a == game.players[i].handStrength
          b == game.players[j].handStrength
      IN  /\ a.tier > b.tier => compareHandsResults(a, b) = 1
          /\ a.tier = b.tier =>
               /\ a.kickers = b.kickers => compareHandsResults(a, b) = 0
               /\ \A k \in 1 .. Len(a.kickers) :
                    FirstDifference(a.kickers, b.kickers, k) =>
                      compareHandsResults(a, b) = IF a.kickers[k] > b.kickers[k] THEN 1 ELSE -1
               /\ a.kickers # b.kickers =>
                    \E k \in 1 .. Len(a.kickers) : FirstDifference(a.kickers, b.kickers, k)
          /\ compareHandsResults(a, b) = 0 - compareHandsResults(b, a)

\* a resolved hand in which both seats hold the same tier and the same first
\* two kickers, and a later kicker gave the pot to one of them
C18_Witness ==
  /\ game.handOver
  /\ game.players[0].handStrength.tier = game.players[1].handStrength.tier
  /\ Len(game.players[0].handStrength.kickers) >= 3
  /\ game.players[0].handStrength.kickers[1] = game.players[1].handStrength.kickers[1]
  /\ game.players[0].handStrength.kickers[2] = game.players[1].handStrength.kickers[2]
  /\ game.players[0].handStrength.kickers # game.players[1].handStrength.kickers
  /\ Len(game.winners) = 1


\* the score evaluateHand gives seat i's hole cards before any board card is
\* out (2 cards in all)
PreFlopScore(i) == evaluateHand(game.players[i].holeCards, <<>>)

\* C19: evaluateHand on fewer than 5 cards returns a sentinel whose tier is
\* strictly below the tier of every real hand, High Card included, so the
\* sentinel loses to any real 5-card score.
C19_SentinelBelowEveryHand ==
  game.handOver =>
    \A i, j \in SeatsOf(game.players) :
      LET s == PreFlopScore(i)
          h == game.players[j].handStrength
      IN  /\ s.tier < h.tier
          /\ compareHandsResults(s, h) = -1
          /\ compareHandsResults(h, s) = 1


\* the cards of s in reverse order
Reverse(s) == [k \in 1 .. Len(s) |-> s[Len(s) + 1 - k]]

\* the cards of s starting from position n + 1, the first n moved to the end
Rotate(s, n) == [k \in 1 .. Len(s) |-> s[((k - 1 + n) % Len(s)) + 1]]

\* other orders in which the same cards can be supplied: reversed, the board
\* ahead of the hole cards, the hole cards swapped, and cut in the middle
Reorderings(state, i) ==
  LET cards == CardsOfSeat(state, i)
  IN  {Reverse(cards), state.communityCards \o state.players[i].holeCards,
       Reverse(state.players[i].holeCards) \o state.communityCards,
       Rotate(cards, 3)}

\* the scores of the 5-card subsets of the cards
SubsetScores(cards) ==
  {evaluate5CardHand(SortAsc(T)) : T \in SubsetsOfSize(SeqToSet(cards), 5)}

\* C20: for 6 or 7 cards evaluateHand returns the score of one of the 5-card
\* subsets, no 5-card subset has a strictly greater score under
\* compareHandsResults, and the tier and kickers are the same in whatever
\* order the cards are supplied.
C20_BestFiveOfSixOrSeven ==
  (game.handOver /\ Len(game.communityCards) >= 4) =>
    \A i \in SeatsOf(game.players) :
      LET best == game.players[i].handStrength
          scores == SubsetScores(CardsOfSeat(game, i))
      IN  /\ best \in scores
          /\ \A s \in scores : compareHandsResults(s, best) <= 0
          /\ \A order \in Reorderings(game, i) : evaluateHand(order, <<>>) = best

\* a resolved hand in which a seat's best hand of 7 cards is two pair or
\* better and beats the first combination of its cards
C20_Witness ==
  /\ ResolvedWithBoard(5)
  /\ \E i \in SeatsOf(game.players) :
       /\ compareHandsResults(game.players[i].handStrength,
                              evaluate5CardHand(SubSeq(CardsOfSeat(game, i), 1, 5))) > 0
       /\ game.players[i].handStrength.tier >= 2


\* the action kind is one getLegalActions reports as not legal for seat i
NotLegal(state, i, kind) ==
  LET legal == getLegalActions(state, i)
  IN  \/ kind = ACTS.CHECK /\ ~legal.canCheck
      \/ kind = ACTS.CALL /\ ~legal.canCall
      \/ kind = ACTS.BET /\ ~legal.canBet
      \/ kind = ACTS.RAISE /\ ~legal.canRaise

\* the action was not applied: the result is the input, or the input with
\* only the acted marks of lines 669-671 set
NotApplied(before, after, i) == after = before \/ after = MarkActed(before, i)

\* C21: applyAction never applies an action kind that getLegalActions
\* reports as not legal for the seat: Check only when callAmount = 0, Call
\* only when callAmount > 0 and stack > 0, Bet only when highestBetThisRound
\* = 0, Raise only when canRaise; a Call with callAmount = 0 is rejected.
C21_OnlyLegalKindsApplied ==
  \A i \in ToAct(game), kind \in ActionKinds, amount \in Amounts :
    (canAct(game.players[i]) /\ NotLegal(game, i, kind))
      => NotApplied(game, applyAction(game, i, kind, amount), i)


\* the chips a call of seat i commits
CallCommit(state, i) ==
  Min(state.players[i].stack, getLegalActions(state, i).callAmount)

\* what a call does to the caller: the commit, and AllIn exactly when the
\* commit empties the stack
CallerEffect(before, after, i) ==
  /\ after.players[i].totalCommitted =
       before.players[i].totalCommitted + CallCommit(before, i)
  /\ (after.players[i].status = PLAYER_STATUS.ALL_IN)
       <=> (CallCommit(before, i) = before.players[i].stack)
  /\ after.players[i].status \in {PLAYER_STATUS.ALL_IN, PLAYER_STATUS.ACTIVE}

\* what a call leaves alone in the betting round
CallFrame(before, after, i) ==
  /\ after.players[i].stack = before.players[i].stack - CallCommit(before, i)
  /\ after.players[i].currentBet = before.players[i].currentBet + CallCommit(before, i)
  /\ after.betting.highestBetThisRound = before.betting.highestBetThisRound
  /\ after.betting.lastReopenerIndex = before.betting.lastReopenerIndex
  /\ after.betting.lastFullRaiseSize = before.betting.lastFullRaiseSize
  /\ after.betting.minRaiseAmount = before.betting.minRaiseAmount
  /\ before.betting.actedSinceLastFullRaise \subseteq after.betting.actedSinceLastFullRaise

\* C22 (as stated): an accepted Call commits exactly min(stack, callAmount)
\* chips of the caller, leaves highestBetThisRound, lastReopenerIndex,
\* lastFullRaiseSize and minRaiseAmount unchanged, removes no seat from
\* actedSinceLastFullRaise, and turns the caller AllIn exactly when the
\* commit empties its stack.
C22_CallAsStated ==
  \A i \in ToAct(game) :
    getLegalActions(game, i).canCall =>
      \A after \in {applyAction(game, i, ACTS.CALL, 0)} :
          CallerEffect(game, after, i) /\ CallFrame(game, after, i)

\* C22 (amended): an accepted Call commits exactly min(stack, callAmount)
\* chips and turns the caller AllIn exactly when that empties its stack;
\* while the call does not complete the betting round it leaves
\* highestBetThisRound, lastReopenerIndex, lastFullRaiseSize and
\* minRaiseAmount unchanged and removes no seat from
\* actedSinceLastFullRaise (a call that completes the round is followed by
\* the street reset or the showdown in the same step).
C22_CallCommitsAndKeepsRound ==
  \A i \in ToAct(game) :
    getLegalActions(game, i).canCall =>
      \A after \in {applyAction(game, i, ACTS.CALL, 0)} :
          /\ CallerEffect(game, after, i)
          /\ (after.phase = game.phase /\ ~after.handOver) => CallFrame(game, after, i)

\* a call for less than the amount owed that empties the caller's stack and
\* leaves the round open, and the caller all-in
C22_Witness ==
  \E i \in ToAct(game) :
    /\ getLegalActions(game, i).canCall
    /\ game.players[i].stack < getLegalActions(game, i).callAmount
    /\ game.betting.actedSinceLastFullRaise \ {i} # {}
    /\ applyAction(game, i, ACTS.CALL, 0).phase = game.phase
    /\ ~applyAction(game, i, ACTS.CALL, 0).handOver
    /\ applyAction(game, i, ACTS.CALL, 0).players[i].status = PLAYER_STATUS.ALL_IN


\* the chips a bet of seat i commits for a requested amount
BetCommit(state, i, amount) == Min(state.players[i].stack, Max(state.bbAmount, amount))

\* the bettor's commitment after the bet
BetCommitted(before, after, i, amount) ==
  after.players[i].totalCommitted =
    before.players[i].totalCommitted + BetCommit(before, i, amount)

\* the betting round after a bet of seat i
BetOpensRound(before, after, i, amount) ==
  /\ after.players[i].currentBet = before.players[i].currentBet + BetCommit(before, i, amount)
  /\ after.betting.highestBetThisRound = after.players[i].currentBet
  /\ after.betting.minRaiseAmount = BetCommit(before, i, amount)
  /\ after.betting.lastFullRaiseSize = BetCommit(before, i, amount)
  /\ after.betting.actedSinceLastFullRaise = {i}
  /\ after.betting.lastReopenerIndex = i

\* a Bet is accepted only when highestBetThisRound = 0
BetOnlyOnUnopenedRound ==
  \A i \in ToAct(game), amount \in TurnAmounts :
    (canAct(game.players[i]) /\ game.betting.highestBetThisRound # 0)
      => \A after \in {applyAction(game, i, ACTS.BET, amount)} : NotApplied(game, after, i)

\* C23 (as stated): an accepted Bet happens only when highestBetThisRound =
\* 0, commits min(stack, max(bigBlind, requested amount)) chips, and
\* afterwards highestBetThisRound = the bettor's currentBet, minRaiseAmount =
\* lastFullRaiseSize = the committed amount, actedSinceLastFullRaise =
\* {bettor} and lastReopenerIndex = bettor.
C23_BetAsStated ==
  /\ BetOnlyOnUnopenedRound
  /\ \A i \in ToAct(game), amount \in TurnAmounts :
       getLegalActions(game, i).canBet =>
         \A after \in {applyAction(game, i, ACTS.BET, amount)} :
             BetCommitted(game, after, i, amount) /\ BetOpensRound(game, after, i, amount)

\* C23 (amended): an accepted Bet happens only when highestBetThisRound = 0
\* and commits min(stack, max(bigBlind, requested amount)) chips; unless the
\* bet completes the betting round before the river (no other seat can act),
\* afterwards highestBetThisRound = the bettor's currentBet, minRaiseAmount =
\* lastFullRaiseSize = the committed amount, actedSinceLastFullRaise =
\* {bettor} and lastReopenerIndex = bettor.
C23_BetOpensTheRound ==
  /\ BetOnlyOnUnopenedRound
  /\ \A i \in ToAct(game), amount \in TurnAmounts :
       getLegalActions(game, i).canBet =>
         \A after \in {applyAction(game, i, ACTS.BET, amount)} :
             /\ BetCommitted(game, after, i, amount)
             /\ (after.phase = game.phase \/ after.phase = PHASES.SHOWDOWN)
                  => BetOpensRound(game, after, i, amount)

\* the seat to act can bet, has more than the big blind, and a request of 1
\* chip leaves the round open with another seat to act
C23_Witness ==
  \E i \in ToAct(game) :
    /\ getLegalActions(game, i).canBet
    /\ game.players[i].stack > game.bbAmount
    /\ applyAction(game, i, ACTS.BET, 1).phase = game.phase
    /\ ~applyAction(game, i, ACTS.BET, 1).handOver
    /\ applyAction(game, i, ACTS.BET, 1).betting.currentActorIndex \in SeatsOf(game.players) \ {i}
    /\ applyAction(game, i, ACTS.BET, 1).betting.highestBetThisRound = game.bbAmount


\* the two action kinds of the raise branch
RaiseKinds == {ACTS.RAISE, ACTS.ALL_IN}

\* by how much the highest bet of the round went up
RaiseSize(before, after) ==
  after.betting.highestBetThisRound - before.betting.highestBetThisRound

\* what the claim C24 says of an accepted raise of seat i
RaiseEffect(before, after, i) ==
  /\ RaiseSize(before, after) > 0
  /\ after.players[i].status # PLAYER_STATUS.ALL_IN
       => RaiseSize(before, after) >= before.betting.lastFullRaiseSize
  /\ RaiseSize(before, after) >= before.betting.lastFullRaiseSize
       => /\ after.betting.lastFullRaiseSize = RaiseSize(before, after)
          /\ after.betting.minRaiseAmount = RaiseSize(before, after)
          /\ after.betting.actedSinceLastFullRaise = {i}
          /\ after.betting.lastReopenerIndex = i

\* C24 (as stated): every accepted raise strictly increases
\* highestBetThisRound; one that is not all-in increases it by at least the
\* previous lastFullRaiseSize; and one of size >= the previous
\* lastFullRaiseSize sets lastFullRaiseSize = minRaiseAmount = that size,
\* actedSinceLastFullRaise = {raiser} and lastReopenerIndex = raiser.
C24_RaiseAsStated ==
  \A i \in ToAct(game), kind \in RaiseKinds, amount \in TurnAmounts :
    \A after \in {applyAction(game, i, kind, amount)} :
        ~NotApplied(game, after, i) => RaiseEffect(game, after, i)

\* C24 (amended): the same of every accepted raise that does not complete
\* the betting round before the river; one that does (no other seat can
\* act) is followed by the street reset in the same step.
C24_RaiseRaisesTheBet ==
  \A i \in ToAct(game), kind \in RaiseKinds, amount \in TurnAmounts :
    \A after \in {applyAction(game, i, kind, amount)} :
        (~NotApplied(game, after, i)
          /\ (after.phase = game.phase \/ after.phase = PHASES.SHOWDOWN))
          => RaiseEffect(game, after, i)

\* the seat to act can make a minimum raise that is not all-in and leaves
\* the round open, taking another seat out of actedSinceLastFullRaise
C24_Witness ==
  \E i \in ToAct(game) :
    \A after \in {applyAction(game, i, ACTS.RAISE, getLegalActions(game, i).minTotalBet)} :
        /\ getLegalActions(game, i).canRaise
        /\ game.betting.actedSinceLastFullRaise \ {i} # {}
        /\ after.phase = game.phase /\ ~after.handOver
        /\ after.players[i].status = PLAYER_STATUS.ACTIVE
        /\ after.betting.highestBetThisRound = getLegalActions(game, i).minTotalBet
        /\ after.betting.actedSinceLastFullRaise = {i}


\* the chips of every player are where they were
ChipsUnmoved(before, after) ==
  \A j \in SeatsOf(before.players) :
    /\ after.players[j].stack = before.players[j].stack
    /\ after.players[j].totalCommitted = before.players[j].totalCommitted

\* the bets and the betting fields of the round are as they were
RoundUntouched(before, after) ==
  /\ \A j \in SeatsOf(before.players) :
       after.players[j].currentBet = before.players[j].currentBet
  /\ after.betting.highestBetThisRound = before.betting.highestBetThisRound
  /\ after.betting.minRaiseAmount = before.betting.minRaiseAmount
  /\ after.betting.lastFullRaiseSize = before.betting.lastFullRaiseSize
  /\ after.betting.lastReopenerIndex = before.betting.lastReopenerIndex

\* the bets and the betting fields are those of resetBetsForNextStreet
StreetReset(after) ==
  /\ \A j \in SeatsOf(after.players) : after.players[j].currentBet = 0
  /\ after.betting.highestBetThisRound = 0
  /\ after.betting.minRaiseAmount = after.bbAmount
  /\ after.betting.lastFullRaiseSize = after.bbAmount
  /\ after.betting.lastReopenerIndex = -1

\* C25: a Fold that does not end the hand sets the folder's status to
\* Folded and leaves every player's stack, currentBet and totalCommitted and
\* highestBetThisRound, minRaiseAmount, lastFullRaiseSize and
\* lastReopenerIndex unchanged, unless the fold completes the betting round,
\* in which case only the street reset applies.
C25_FoldMovesNoChips ==
  Started =>
    \A i \in SeatsOf(game.players) :
      \A after \in {applyAction(game, i, ACTS.FOLD, 0)} :
          (~game.handOver /\ canAct(game.players[i]) /\ ~after.handOver) =>
            /\ after.players[i].status = PLAYER_STATUS.FOLDED
            /\ \A j \in SeatsOf(game.players) \ {i} :
                 after.players[j].status = game.players[j].status
            /\ ChipsUnmoved(game, after)
            /\ IF after.phase = game.phase
                 THEN RoundUntouched(game, after)
                 ELSE StreetReset(after)

\* a seat with a bet on the table can fold and leave two players in an open
\* round; another seat's fold would complete the round
C25_Witness ==
  /\ Started /\ ~game.handOver
  /\ \E i \in SeatsOf(game.players) :
       /\ canAct(game.players[i]) /\ game.players[i].currentBet > 0
       /\ ~applyAction(game, i, ACTS.FOLD, 0).handOver
       /\ applyAction(game, i, ACTS.FOLD, 0).phase = game.phase
  /\ \E i \in SeatsOf(game.players) :
       /\ canAct(game.players[i])
       /\ ~applyAction(game, i, ACTS.FOLD, 0).handOver
       /\ applyAction(game, i, ACTS.FOLD, 0).phase # game.phase
       /\ game.betting.highestBetThisRound > 0


\* the flags of a getLegalActions result
LegalFlags(legal) ==
  {legal.canFold, legal.canCheck, legal.canCall, legal.canBet, legal.canRaise, legal.canAllIn}

\* C26: for a seat i that is Active with stack > 0 in a hand that is not
\* over, getLegalActions returns callAmount = max(0, highestBetThisRound -
\* currentBet[i]), canCheck iff callAmount = 0, canCall iff callAmount > 0,
\* canBet iff highestBetThisRound = 0, canRaise iff highestBetThisRound > 0
\* and i is not in actedSinceLastFullRaise and currentBet[i] + stack >
\* highestBetThisRound, minTotalBet = highestBetThisRound + minRaiseAmount
\* and maxTotalBet = currentBet[i] + stack; for any other seat, or when
\* handOver, every flag is false.
C26_LegalActionsAsSpecified ==
  \A i \in SeatsOf(game.players) :
    LET legal == getLegalActions(game, i)
        p == game.players[i]
        owed == game.betting.highestBetThisRound - p.currentBet
    IN  IF p.status = PLAYER_STATUS.ACTIVE /\ p.stack > 0 /\ ~game.handOver
          THEN /\ legal.callAmount = (IF owed > 0 THEN owed ELSE 0)
               /\ legal.canCheck <=> legal.callAmount = 0
               /\ legal.canCall <=> legal.callAmount > 0
               /\ legal.canBet <=> game.betting.highestBetThisRound = 0
               /\ legal.canRaise <=>
                    (/\ game.betting.highestBetThisRound > 0
                     /\ i \notin game.betting.actedSinceLastFullRaise
                     /\ p.currentBet + p.stack > game.betting.highestBetThisRound)
               /\ legal.minTotalBet =
                    game.betting.highestBetThisRound + game.betting.minRaiseAmount
               /\ legal.maxTotalBet = p.currentBet + p.stack
          ELSE LegalFlags(legal) = {FALSE}

\* the seat to act is in actedSinceLastFullRaise, owes chips and has the
\* stack to go over the highest bet: it may call but not raise
C26_Witness ==
  \E i \in ToAct(game) :
    /\ i \in game.betting.actedSinceLastFullRaise
    /\ game.players[i].currentBet < game.betting.highestBetThisRound
    /\ game.players[i].currentBet + game.players[i].stack > game.betting.highestBetThisRound
    /\ ~getLegalActions(game, i).canRaise
    /\ getLegalActions(game, i).canCall


\* C27: in every state reached through startHand and applyAction no player
\* is Active with stack = 0: a player whose commit (blind, call, bet, raise)
\* emptied the stack is AllIn, and a player who started the hand with stack
\* 0 is Eliminated.
C27_NoActivePlayerWithoutChips ==
  Started =>
    \A i \in SeatsOf(game.players) :
      game.players[i].stack = 0 =>
        game.players[i].status =
          (IF stacksBefore[i] = 0 THEN PLAYER_STATUS.ELIMINATED ELSE PLAYER_STATUS.ALL_IN)

\* a hand in progress with a seat eliminated at the start and a seat all-in
\* on a commit above the big blind
C27_Witness ==
  /\ Started /\ ~game.handOver
  /\ \E i \in SeatsOf(game.players) : game.players[i].status = PLAYER_STATUS.ELIMINATED
  /\ \E i \in SeatsOf(game.players) :
       /\ game.players[i].status = PLAYER_STATUS.ALL_IN
       /\ game.players[i].totalCommitted > game.bbAmount
  /\ game.betting.hasActedThisRound


\* the streets that are entered by advanceStreet
LaterStreets == {PHASES.FLOP, PHASES.TURN, PHASES.RIVER}

\* how many seats clockwise from the dealer seat i is (the dealer itself last)
SeatsAfterDealer(state, i) ==
  ((i - state.dealerIndex - 1) % Length(state.players)) + 1

\* the first seat clockwise after the dealer that is Active with stack > 0,
\* -1 when there is none
FirstToActAfterDealer(state) ==
  LET able == {i \in SeatsOf(state.players) :
                 state.players[i].status = PLAYER_STATUS.ACTIVE /\ state.players[i].stack > 0}
  IN  IF able = {} THEN -1
      ELSE CHOOSE i \in able :
             \A j \in able : SeatsAfterDealer(state, i) <= SeatsAfterDealer(state, j)

\* this step enters Flop, Turn or River
EntersStreet == game'.phase \in LaterStreets /\ game'.phase # game.phase

\* C28: on entering Flop, Turn or River every player's currentBet is 0,
\* highestBetThisRound = 0, minRaiseAmount = lastFullRaiseSize = big blind,
\* actedSinceLastFullRaise is empty, hasActedThisRound is false and
\* currentActorIndex = startingIndex = the first seat clockwise after the
\* dealer that is Active with stack > 0 (-1 when there is none); the
\* transition moves no chips: in the step that enters the street every
\* player's stack + totalCommitted is what it was, and only the seat whose
\* action completed the round has committed anything.
C28_StreetEntryResetsTheRound ==
  [][EntersStreet =>
       /\ \A i \in SeatsOf(game.players) : game'.players[i].currentBet = 0
       /\ game'.betting.highestBetThisRound = 0
       /\ game'.betting.minRaiseAmount = game.bbAmount
       /\ game'.betting.lastFullRaiseSize = game.bbAmount
       /\ game'.betting.actedSinceLastFullRaise = {}
       /\ game'.betting.hasActedThisRound = FALSE
       /\ game'.betting.currentActorIndex = FirstToActAfterDealer(game')
       /\ game'.betting.startingIndex = FirstToActAfterDealer(game')
       /\ \A i \in SeatsOf(game.players) :
            game'.players[i].stack + game'.players[i].totalCommitted
              = game.players[i].stack + game.players[i].totalCommitted
       /\ Cardinality({i \in SeatsOf(game.players) :
                         game'.players[i].stack # game.players[i].stack}) <= 1]_vars

\* the turn has just been entered three-handed: the seat after the dealer
\* is all-in and the next one is first to act
C28_Witness ==
  /\ game.phase = PHASES.TURN /\ ~game.handOver
  /\ ~game.betting.hasActedThisRound
  /\ Length(game.players) = 3
  /\ game.players[1].status = PLAYER_STATUS.ALL_IN
  /\ game.betting.currentActorIndex = 2
  /\ game.betting.startingIndex = 2


\* the seats eligible for at least one pot of the state
EligibleSomewhere(state) ==
  {i \in SeatsOf(state.players) :
     \E k \in 1 .. Len(state.pots) : InSeq(i, state.pots[k].eligiblePlayers)}

\* this step resolves the hand (showdown or fold-out)
ResolvesHand == ~game.handOver /\ game'.handOver

\* C29: at hand resolution every non-folded player with totalCommitted > 0
\* is in the eligible set of at least one pot, no folded player is in any
\* eligible set, and no player whose status is Folded has a larger stack
\* after the hand ends than before the resolution step.
C29_EligibilityAtResolution ==
  /\ [](game.handOver =>
          \A i \in SeatsOf(game.players) :
            IF game.players[i].status = PLAYER_STATUS.FOLDED
              THEN i \notin EligibleSomewhere(game)
              ELSE game.players[i].totalCommitted > 0 => i \in EligibleSomewhere(game))
  /\ [][ResolvesHand =>
          \A i \in SeatsOf(game.players) :
            game'.players[i].status = PLAYER_STATUS.FOLDED
              => game'.players[i].stack <= game.players[i].stack]_vars

\* a showdown over two pots with a folded contributor who holds chips and
\* an all-in player eligible for the first pot only
C29_Witness ==
  /\ game.handOver /\ Len(game.pots) = 2
  /\ Cardinality(remainingInHand(game)) >= 2
  /\ \E i \in SeatsOf(game.players) :
       /\ game.players[i].status = PLAYER_STATUS.FOLDED
       /\ game.players[i].totalCommitted > 0
       /\ game.players[i].stack > 0
  /\ \E i \in SeatsOf(game.players) :
       /\ InSeq(i, game.pots[1].eligiblePlayers)
       /\ ~InSeq(i, game.pots[2].eligiblePlayers)


\* the hole cards of all seats, seat after seat
RECURSIVE AllHoleCards(_, _)
AllHoleCards(state, i) ==
  IF i >= Length(state.players) THEN <<>>
  ELSE state.players[i].holeCards \o AllHoleCards(state, i + 1)

\* every card of the deck, the board and the hands
CardsInPlay(state) == state.deck \o state.communityCards \o AllHoleCards(state, 0)

\* the cards burned so far: one ahead of each street dealt
BurnedCards(state) ==
  IF Len(state.communityCards) = 0 THEN 0 ELSE Len(state.communityCards) - 2

\* C30: after startHand every non-eliminated seat holds exactly 2 hole
\* cards and every Eliminated seat 0; the hole cards do not change for the
\* rest of the hand; and in every reachable state no card appears twice
\* among the deck, the hole cards and the community cards, which with the
\* burned cards number 52.
C30_CardsDealtOnce ==
  /\ [](Started =>
          /\ \A i \in SeatsOf(game.players) :
               Len(game.players[i].holeCards) =
                 (IF game.players[i].status = PLAYER_STATUS.ELIMINATED THEN 0 ELSE 2)
          /\ Cardinality(SeqToSet(CardsInPlay(game))) = Len(CardsInPlay(game))
          /\ SeqToSet(CardsInPlay(game)) \subseteq SeqToSet(createDeck)
          /\ Len(CardsInPlay(game)) + BurnedCards(game) = 52)
  /\ [][Started =>
          \A i \in SeatsOf(game.players) :
            game'.players[i].holeCards = game.players[i].holeCards]_vars

\* a river with one seat eliminated at the start and two seats holding cards
C30_Witness ==
  /\ game.phase = PHASES.RIVER /\ Len(game.communityCards) = 5
  /\ Len(game.deck) = 40
  /\ \E i \in SeatsOf(game.players) :
       game.players[i].status = PLAYER_STATUS.ELIMINATED /\ game.players[i].holeCards = <<>>
  /\ Cardinality({i \in SeatsOf(game.players) : Len(game.players[i].holeCards) = 2}) = 2


(***************************************************************************)
(* C31.  No deadlock: while a hand is in progress (handOver = false) the   *)
(* index betting.currentActorIndex designates a seat whose status is       *)
(* Active and whose stack is positive, so that some applyAction call can   *)
(* still change the state.  In particular, when an action leaves no seat   *)
(* able to act before the river, the hand still proceeds to showdown.      *)
(* The engine advances one street only in that case (applyAction 759-765,  *)
(* advanceStreet 648-650) and leaves currentActorIndex = -1.               *)
(***************************************************************************)
ActorCanAct(state) ==
    /\ state.betting.currentActorIndex \in SeatsOf(state.players)
    /\ canAct(state.players[state.betting.currentActorIndex])

\* stated for hands that two seats or more are still contesting
C31_ActorCanAlwaysAct ==
    (Started /\ ~game.handOver /\ Cardinality(remainingInHand(game)) >= 2)
        => ActorCanAct(game)


(***************************************************************************)
(* C32.  Hand termination: once a hand is started with two players or more *)
(* in it and the seat at currentActorIndex keeps checking when it owes     *)
(* nothing and calling when it owes chips, handOver eventually becomes     *)
(* true, also when the last full raiser or the big blind is all-in.       *)
(* The policy is deterministic, so the hand cannot end from a state that   *)
(* the policy's action leaves as it is: the formula asks that, while the   *)
(* designated seat can act (the stall of C31 set aside), the action of     *)
(* the policy changes the state.                                           *)
(***************************************************************************)
PolicyStep(state) ==
    applyAction(state, state.betting.currentActorIndex, PolicyAction(state), 0)

C32_CallCheckMakesProgress ==
    (Started /\ ~game.handOver /\ ActorCanAct(game)) => PolicyStep(game) # game

(***************************************************************************)
(* C33.  While a hand is in progress and legal in-turn actions are         *)
(* applied, the seat designated by currentActorIndex is never a seat that  *)
(* has acted since the last full bet or raise and whose currentBet equals  *)
(* highestBetThisRound: once every seat able to act has matched the        *)
(* highest bet and acted, the round ends instead of giving a further turn. *)
(***************************************************************************)
ActedAndSettled(state, i) ==
    /\ i \in state.betting.actedSinceLastFullRaise
    /\ state.players[i].currentBet = state.betting.highestBetThisRound

C33_NoTurnForSettledSeat ==
    (Started /\ ~game.handOver /\ ActorCanAct(game))
        => ~ActedAndSettled(game, game.betting.currentActorIndex)


(***************************************************************************)
(* C34.  A betting round never completes by turn rotation before every     *)
(* seat able to act at that moment has acted on that street; in            *)
(* particular, in an unraised preflop pot the big-blind seat gets its turn *)
(* before the flop is dealt.  A round completes when the phase changes     *)
(* with two seats or more still in the hand.  The seats that have acted    *)
(* are those of actedSinceLastFullRaise and the seat acting: a full bet or *)
(* raise empties that set, and every other seat then owes chips, so a seat *)
(* that is settled and outside the set has not acted on the street.        *)
(***************************************************************************)
AbleSeats(state) == {i \in SeatsOf(state.players) : canAct(state.players[i])}

C34_EverySeatActsBeforeRoundEnds ==
    [][RoundCompleted
         => AbleSeats(game') \subseteq
               (game.betting.actedSinceLastFullRaise \cup ToAct(game))]_vars


(***************************************************************************)
(* C35.  After every accepted action that ends neither the hand nor the    *)
(* betting round, betting.currentActorIndex is the first seat clockwise    *)
(* after the acting seat whose status is Active and whose stack is         *)
(* positive (folded, all-in and eliminated seats are skipped), and a       *)
(* rejected action leaves currentActorIndex unchanged.  An action is       *)
(* rejected when it leaves every player as it was, unless it is a check,   *)
(* or a call of nothing, by a seat that owes nothing.                      *)
(***************************************************************************)
TurnRequests ==
    {<<ACTS.FOLD, 0>>, <<ACTS.CHECK, 0>>, <<ACTS.CALL, 0>>, <<ACTS.ALL_IN, 0>>}
      \cup ({ACTS.BET} \X {0, TurnStack + 1}) \cup ({ACTS.RAISE} \X TurnAmounts)

OwesNothing(state, i) ==
    state.players[i].currentBet >= state.betting.highestBetThisRound

WasRejected(before, after, i, kind) ==
    /\ after.players = before.players
    /\ ~(kind \in {ACTS.CHECK, ACTS.CALL} /\ OwesNothing(before, i))

\* the seat reached first when walking clockwise from the seat after i,
\* i itself last, among the seats that can act
FirstAbleAfter(state, i) ==
    LET n == Length(state.players)
        steps == {d \in 1 .. n : canAct(state.players[(i + d) % n])}
    IN  IF steps = {} THEN -1
        ELSE (i + (CHOOSE d \in steps : \A e \in steps : d <= e)) % n

C35_NextActorIsFirstAbleClockwise ==
    [](Started /\ ~game.handOver =>
         \A i \in ToAct(game), r \in TurnRequests :
           \A after \in {applyAction(game, i, r[1], r[2])} :
             \/ after.handOver
             \/ after.phase # game.phase
             \/ IF WasRejected(game, after, i, r[1])
                  THEN after.betting.currentActorIndex = game.betting.currentActorIndex
                  ELSE after.betting.currentActorIndex = FirstAbleAfter(after, i))

\* three-handed, one seat only has acted since the last full bet, the seat
\* after it is folded or all-in and was skipped, and the third seat is to act
C35_Witness ==
    /\ Started /\ ~game.handOver /\ game.betting.hasActedThisRound
    /\ Length(game.players) = 3
    /\ ActorCanAct(game)
    /\ LET c == game.betting.currentActorIndex
       IN  /\ game.players[(c + 2) % 3].status \in {PLAYER_STATUS.FOLDED, PLAYER_STATUS.ALL_IN}
           /\ game.betting.actedSinceLastFullRaise = {(c + 1) % 3}
           /\ canAct(game.players[(c + 1) % 3])


(***************************************************************************)
(* C36.  Within one hand the phase only moves forward in the order         *)
(* Preflop, Flop, Turn, River, Showdown: one applyAction advances at most  *)
(* one street, no street is skipped except by going directly to Showdown   *)
(* on a fold-out, and handOver = true holds exactly when the phase is      *)
(* Showdown.                                                               *)
(***************************************************************************)
PhaseOrder == <<PHASES.PREFLOP, PHASES.FLOP, PHASES.TURN, PHASES.RIVER, PHASES.SHOWDOWN>>

PhaseIndex(phase) == CHOOSE k \in 1 .. Len(PhaseOrder) : PhaseOrder[k] = phase

\* the step ended the hand on a fold-out: one player is left in the hand
FoldedOut(after) ==
    /\ after.phase = PHASES.SHOWDOWN
    /\ Cardinality(remainingInHand(after)) = 1

C36_PhaseMovesForwardOneStreet ==
    /\ [](game.handOver <=> game.phase = PHASES.SHOWDOWN)
    /\ [][Started =>
            \/ game'.phase = game.phase
            \/ PhaseIndex(game'.phase) = PhaseIndex(game.phase) + 1
            \/ FoldedOut(game')]_vars

\* a hand that went through every street to a showdown between two players
C36_Witness ==
    /\ game.phase = PHASES.SHOWDOWN /\ game.handOver
    /\ Len(game.communityCards) = 5
    /\ Cardinality(remainingInHand(game)) >= 2


(***************************************************************************)
(* C37.  Once handOver is true, applyAction with any seat, action kind and *)
(* amount returns a state equal to its input: stacks, statuses, pots,      *)
(* winners, phase and betting fields cannot change until the next          *)
(* startHand.                                                              *)
(***************************************************************************)
\* the seats of the table and one index outside it
AnySeat(state) == SeatsOf(state.players) \cup {Length(state.players)}

C37_NothingAppliesAfterHandOver ==
    game.handOver =>
      \A i \in AnySeat(game), kind \in ActionKinds, amount \in Amounts :
        applyAction(game, i, kind, amount) = game

\* a hand is over, two seats are Active with chips and one of them is a
\* winner: both could act were the hand still on
C37_Witness ==
    /\ game.handOver
    /\ Cardinality(AbleSeats(game)) >= 2
    /\ \E i \in SeatsOf(game.players) :
         /\ canAct(game.players[i])
         /\ game.players[i].id \in {game.winners[k] : k \in 1 .. Len(game.winners)}


(***************************************************************************)
(* C38.  In every state reached through startHand and applyAction with     *)
(* handOver = false, highestBetThisRound equals the maximum currentBet     *)
(* over all players, so that no player's currentBet exceeds it.            *)
(***************************************************************************)
CurrentBets(state) == {state.players[i].currentBet : i \in SeatsOf(state.players)}

C38_HighestBetIsMaxCurrentBet ==
    (Started /\ ~game.handOver) =>
        /\ game.betting.highestBetThisRound \in CurrentBets(game)
        /\ \A b \in CurrentBets(game) : b <= game.betting.highestBetThisRound

\* a raise above the big blind stands and a seat that can act still owes
C38_Witness ==
    /\ Started /\ ~game.handOver
    /\ game.betting.highestBetThisRound > game.bbAmount
    /\ \E i \in AbleSeats(game) :
         game.players[i].currentBet < game.betting.highestBetThisRound


(***************************************************************************)
(* C39.  Every pot computed when a hand is resolved at showdown has a      *)
(* non-empty eligible set, so that every pot is paid out to some player,   *)
(* also when the player with the largest totalCommitted has folded.        *)
(***************************************************************************)
ResolvedAtShowdown(state) ==
    /\ state.handOver
    /\ Cardinality(remainingInHand(state)) >= 2

C39_EveryPotHasAnEligiblePlayer ==
    ResolvedAtShowdown(game) =>
        \A k \in 1 .. Len(game.pots) : game.pots[k].eligiblePlayers # <<>>


(***************************************************************************)
(* C40.  Across consecutive hands with the dealer rotating, whenever two   *)
(* players or more have stack > 0 at startHand, both a small blind and a   *)
(* big blind are posted by non-eliminated seats, so that                   *)
(* highestBetThisRound > 0 at the start of preflop, even when the seat one *)
(* or two places left of the dealer is Eliminated.                         *)
(***************************************************************************)
\* this step starts a hand
StartsHand == game.phase \in {"idle", PHASES.SHOWDOWN} /\ game'.phase = PHASES.PREFLOP

SeatsWithChips(state) == {i \in SeatsOf(state.players) : state.players[i].stack > 0}

\* the seats that have posted a blind in a hand just started
BlindPosters(state) ==
    {i \in SeatsOf(state.players) :
       state.players[i].status # PLAYER_STATUS.ELIMINATED /\ state.players[i].totalCommitted > 0}

C40_BothBlindsPosted ==
    [][(StartsHand /\ Cardinality(SeatsWithChips(game)) >= 2)
         => /\ Cardinality(BlindPosters(game')) = 2
            /\ game'.betting.highestBetThisRound > 0]_vars

====
